---- MODULE Spec2Model ----
(***************************************************************************)
(* Kuboble sliding-block puzzle engine: level codec, slide physics, win    *)
(* predicate, BFS solver, level generator and solution verifier            *)
(* (src/kuboble_verifier.py, src/kuboble_generator.py).                    *)
(*                                                                         *)
(* Conventions.  A text (Python str) is a sequence of one-character        *)
(* strings.  A dict is a sequence of <<key, value>> pairs in insertion     *)
(* order.  A position is <<row, col>>, 0-based as in the source; the grid  *)
(* is a sequence of rows, so grid cell (r, c) is grid[r + 1][c + 1].       *)
(* Python's None is the string "None" where a character or a result may    *)
(* be absent.                                                              *)
(***************************************************************************)
EXTENDS Integers, Sequences, FiniteSets, TLC

VARIABLES
    pc,     \* position of the running call
    args,   \* the arguments of the running call
    gen,    \* generate_kuboble_level: attempt counter and the last candidate
    bfs,    \* _is_solvable_bfs: queue, visited set, result
    game,   \* the current KubobleGame of a replay
    out,    \* the value the call returned
    ver     \* the result of verify_kuboble_solution

vars == <<pc, args, gen, bfs, game, out, ver>>

None == "None"

\* the value of a variable the running call does not use
Unused == [unused |-> TRUE]

(***************************************************************************)
(* Characters and texts                                                    *)
(***************************************************************************)
UpperSeq == <<"A","B","C","D","E","F","G","H","I","J","K","L","M",
              "N","O","P","Q","R","S","T","U","V","W","X","Y","Z">>

LowerSeq == <<"a","b","c","d","e","f","g","h","i","j","k","l","m",
              "n","o","p","q","r","s","t","u","v","w","x","y","z">>

\* 'A' <= ch <= 'Z'
IsUpper(ch) == \E i \in DOMAIN UpperSeq : UpperSeq[i] = ch

\* 'a' <= ch <= 'z'
IsLower(ch) == \E i \in DOMAIN LowerSeq : LowerSeq[i] = ch

\* str.lower() on one character
LowerCh(ch) ==
    IF IsUpper(ch)
    THEN LowerSeq[CHOOSE i \in DOMAIN UpperSeq : UpperSeq[i] = ch]
    ELSE ch

\* str.lower()
Lower(s) == [i \in DOMAIN s |-> LowerCh(s[i])]

\* the characters str.strip() and str.split() treat as whitespace
Whitespace == {" ", "\t", "\n"}

RECURSIVE LStrip(_)
LStrip(s) ==
    IF s # <<>> /\ Head(s) \in Whitespace THEN LStrip(Tail(s)) ELSE s

RECURSIVE RStrip(_)
RStrip(s) ==
    IF s # <<>> /\ s[Len(s)] \in Whitespace
    THEN RStrip(SubSeq(s, 1, Len(s) - 1))
    ELSE s

\* str.strip()
Strip(s) == RStrip(LStrip(s))

\* Loops are written over an index range lo..hi that is split in halves,
\* the passes keeping the order of the code.

NonEmptyText(t) == t # <<>>

\* the fragments of s[lo..hi] between the characters of seps: empty
\* fragments are kept, the last fragment of a half continues in the first
\* of the next
RECURSIVE SplitRange(_, _, _, _)
SplitRange(s, seps, lo, hi) ==
    IF lo > hi THEN << <<>> >>
    ELSE IF lo = hi
         THEN (IF s[lo] \in seps THEN << <<>>, <<>> >> ELSE << <<s[lo]>> >>)
    ELSE LET mid == (lo + hi) \div 2
             L == SplitRange(s, seps, lo, mid)
             R == SplitRange(s, seps, mid + 1, hi)
         IN SubSeq(L, 1, Len(L) - 1) \o << L[Len(L)] \o R[1] >> \o Tail(R)

\* str.split(sep) for a one-character sep: empty fragments are kept and
\* the empty text gives one empty fragment.
Split(s, sep) == SplitRange(s, {sep}, 1, Len(s))

\* str.split() without argument: runs of whitespace separate, no empty
\* fragment is produced.
SplitWs(s) == SelectSeq(SplitRange(s, Whitespace, 1, Len(s)), NonEmptyText)

\* sep.join(parts[lo..hi])
RECURSIVE JoinRange(_, _, _, _)
JoinRange(parts, sep, lo, hi) ==
    IF lo > hi THEN <<>>
    ELSE IF lo = hi THEN parts[lo]
    ELSE LET mid == (lo + hi) \div 2 IN
         JoinRange(parts, sep, lo, mid) \o sep \o JoinRange(parts, sep, mid + 1, hi)

\* sep.join(parts)
Join(parts, sep) == JoinRange(parts, sep, 1, Len(parts))

\* ch in s
Contains(s, ch) == \E i \in DOMAIN s : s[i] = ch

(***************************************************************************)
(* Dicts in insertion order                                                *)
(***************************************************************************)
DictHas(d, k) == \E i \in DOMAIN d : d[i][1] = k

DictGet(d, k) == d[CHOOSE i \in DOMAIN d : d[i][1] = k][2]

\* d[k] = v : a present key keeps its place, a new key goes last
DictSet(d, k, v) ==
    IF DictHas(d, k)
    THEN [i \in DOMAIN d |-> IF d[i][1] = k THEN <<k, v>> ELSE d[i]]
    ELSE Append(d, <<k, v>>)

\* del d[k]
DictDel(d, k) ==
    LET Other(item) == item[1] # k IN SelectSeq(d, Other)

\* the assignments of e made after those of d, as in d.update(e): a key of
\* d keeps its place and takes the value of e, the new keys follow
DictUpdate(d, e) ==
    LET New(item) == ~DictHas(d, item[1]) IN
    [i \in DOMAIN d |-> IF DictHas(e, d[i][1]) THEN <<d[i][1], DictGet(e, d[i][1])>>
                        ELSE d[i]]
        \o SelectSeq(e, New)

\* the dict as a set of items: equality of two dicts in Python
DictItems(d) == {d[i] : i \in DOMAIN d}

(***************************************************************************)
(* KubobleGame: level parsing                                              *)
(***************************************************************************)
\* the tokens of one row when the test for '.' comes before the test for ' '
TokenizeRowDotFirst(row_str_raw) ==
    LET row_str == Strip(row_str_raw) IN
    IF row_str = <<>> THEN <<>>
    ELSE IF Contains(row_str, ".")
         THEN [i \in DOMAIN row_str |-> <<row_str[i]>>]
    ELSE IF Contains(row_str, " ")
         THEN SelectSeq(Split(row_str, " "), NonEmptyText)
    ELSE <<row_str>>

\* one row of the level text to its cell tokens
TokenizeRow(row_str_raw) ==
    LET row_str == Strip(row_str_raw) IN
    IF row_str = <<>> THEN <<>>
    ELSE IF Contains(row_str, " ")
         THEN SelectSeq(Split(row_str, " "), NonEmptyText)
    ELSE IF Contains(row_str, ".")
         THEN [i \in DOMAIN row_str |-> <<row_str[i]>>]
    ELSE <<row_str>>

\* the last character of the token in the class, or None
RECURSIVE LastInClass(_, _, _)
LastInClass(token, upper, found) ==
    IF token = <<>> THEN found
    ELSE LastInClass(Tail(token), upper,
                     IF (upper /\ IsUpper(Head(token))) \/ (~upper /\ IsLower(Head(token)))
                     THEN Head(token) ELSE found)

\* piece_in_cell of a cell token
PieceInCell(token) ==
    IF token = <<"X">> \/ token = <<".">> THEN None
    ELSE LastInClass(token, TRUE, None)

\* target_in_cell when only a one-character token can name a target
TargetInCellSingleOnly(token) ==
    IF Len(token) # 1 THEN None
    ELSE LastInClass(token, FALSE, None)

\* target_in_cell of a cell token
TargetInCell(token) ==
    IF token = <<"X">> \/ token = <<".">> THEN None
    ELSE LastInClass(token, FALSE, None)

MaxOf(S) == IF S = {} THEN 0 ELSE CHOOSE m \in S : \A x \in S : x <= m

\* the assignments to self.pieces and self.targets made for the cells
\* lo..hi of row r, as <<pieces, targets>>
RECURSIVE ScanRow(_, _, _, _)
ScanRow(rows, r, lo, hi) ==
    IF lo > hi THEN << <<>>, <<>> >>
    ELSE IF lo = hi
         THEN LET p == PieceInCell(rows[r][lo])
                  t == TargetInCell(rows[r][lo])
                  pos == <<r - 1, lo - 1>>
              IN << IF p # None THEN << <<p, pos>> >> ELSE <<>>,
                    IF t # None THEN << <<t, pos>> >> ELSE <<>> >>
    ELSE LET mid == (lo + hi) \div 2
             a == ScanRow(rows, r, lo, mid)
             b == ScanRow(rows, r, mid + 1, hi)
         IN << DictUpdate(a[1], b[1]), DictUpdate(a[2], b[2]) >>

\* those made for the rows lo..hi
RECURSIVE ScanRows(_, _, _)
ScanRows(rows, lo, hi) ==
    IF lo > hi THEN << <<>>, <<>> >>
    ELSE IF lo = hi THEN ScanRow(rows, lo, 1, Len(rows[lo]))
    ELSE LET mid == (lo + hi) \div 2
             a == ScanRows(rows, lo, mid)
             b == ScanRows(rows, mid + 1, hi)
         IN << DictUpdate(a[1], b[1]), DictUpdate(a[2], b[2]) >>

\* the loop over the tokens in row-major order: <<pieces, targets>>
ScanCells(rows) == ScanRows(rows, 1, Len(rows))

\* self.grid[r][c] after the two loops that fill it: the character of the
\* piece that self.pieces holds at the cell (written last), else 'X' where
\* the token of the cell is 'X', else '.'
GridCell(rows, pieces, r, c) ==
    LET here == {i \in DOMAIN pieces : pieces[i][2] = <<r - 1, c - 1>>} IN
    IF here # {} THEN pieces[MaxOf(here)][1]
    ELSE IF c <= Len(rows[r]) /\ rows[r][c] = <<"X">> THEN "X"
    ELSE "."

\* processed_rows_tokens: the token list of every row
ProcessedRowsTokens(level_string) ==
    LET raw_rows == Split(Strip(level_string), ";")
    IN [r \in DOMAIN raw_rows |-> TokenizeRow(raw_rows[r])]

\* KubobleGame(level_string) when the width is the token count of the first row
ParseLevelFirstRowWidth(level_string) ==
    LET rows == ProcessedRowsTokens(level_string)
        height == Len(rows)
        width == Len(rows[1])
        d == ScanCells(rows)
    IN [grid    |-> [r \in 1..height |-> [c \in 1..width |-> GridCell(rows, d[1], r, c)]],
        pieces  |-> DictDel(d[1], "X"),
        targets |-> d[2],
        width   |-> width,
        height  |-> height]

\* KubobleGame(level_string)
ParseLevel(level_string) ==
    LET rows == ProcessedRowsTokens(level_string)
        height == Len(rows)
        width == MaxOf({Len(rows[r]) : r \in DOMAIN rows})
        d == ScanCells(rows)
    IN IF height = 0
       THEN [grid |-> <<>>, pieces |-> <<>>, targets |-> <<>>, width |-> 0, height |-> 0]
       ELSE [grid    |-> [r \in 1..height |-> [c \in 1..width |-> GridCell(rows, d[1], r, c)]],
             pieces  |-> DictDel(d[1], "X"),
             targets |-> d[2],
             width   |-> width,
             height  |-> height]

\* the obstacle cells of a game: the cells its grid marks 'X'
ObstacleCells(g) ==
    {pos \in (0..(g.height - 1)) \X (0..(g.width - 1)) :
        g.grid[pos[1] + 1][pos[2] + 1] = "X"}

(***************************************************************************)
(* KubobleGame: win predicate, slide physics, move application             *)
(***************************************************************************)
\* is_win without the test `if not self.pieces`
IsWinVacuous(g) ==
    \A i \in DOMAIN g.pieces :
        LET target_char == LowerCh(g.pieces[i][1]) IN
        /\ DictHas(g.targets, target_char)
        /\ g.pieces[i][2] = DictGet(g.targets, target_char)

\* is_win passing over a piece whose target is not in self.targets
IsWinSkipsMissing(g) ==
    /\ g.pieces # <<>>
    /\ \A i \in DOMAIN g.pieces :
          LET target_char == LowerCh(g.pieces[i][1]) IN
          DictHas(g.targets, target_char)
              => g.pieces[i][2] = DictGet(g.targets, target_char)

\* is_win comparing positions only: every piece stands on some target
IsWinAnyTarget(g) ==
    /\ g.pieces # <<>>
    /\ \A i \in DOMAIN g.pieces :
          \E j \in DOMAIN g.targets : g.pieces[i][2] = g.targets[j][2]

\* is_win returning True at the first piece found on its target
IsWinSomePiece(g) ==
    \E i \in DOMAIN g.pieces :
        LET target_char == LowerCh(g.pieces[i][1]) IN
        /\ DictHas(g.targets, target_char)
        /\ g.pieces[i][2] = DictGet(g.targets, target_char)

\* is_win
IsWin(g) ==
    /\ g.pieces # <<>>
    /\ \A i \in DOMAIN g.pieces :
          LET target_char == LowerCh(g.pieces[i][1]) IN
          /\ DictHas(g.targets, target_char)
          /\ g.pieces[i][2] = DictGet(g.targets, target_char)

\* the direction names, as texts
Up == <<"u", "p">>

Down == <<"d", "o", "w", "n">>

Left == <<"l", "e", "f", "t">>

Right == <<"r", "i", "g", "h", "t">>

Directions == << <<-1, 0, Up>>, <<1, 0, Down>>, <<0, -1, Left>>, <<0, 1, Right>> >>

InGrid(g, r, c) == r >= 0 /\ r < g.height /\ c >= 0 /\ c < g.width

\* the loop over self.pieces left after the first other piece, whether or
\* not that piece stands on (r, c)
OtherPieceAtFirstOnly(g, piece_char, r, c) ==
    LET first == {i \in DOMAIN g.pieces :
                     /\ g.pieces[i][1] # piece_char
                     /\ \A j \in 1..(i - 1) : g.pieces[j][1] = piece_char}
    IN \E i \in first : g.pieces[i][2] = <<r, c>>

\* some piece other than piece_char stands on (r, c)
OtherPieceAt(g, piece_char, r, c) ==
    \E i \in DOMAIN g.pieces :
        g.pieces[i][1] # piece_char /\ g.pieces[i][2] = <<r, c>>

\* a cell test that looks at the grid only, not at the other pieces
BlockedIgnoresPieces(g, piece_char, r, c) ==
    \/ ~InGrid(g, r, c)
    \/ g.grid[r + 1][c + 1] = "X"

\* a cell test that looks at the other pieces only, not at the grid marks
BlockedIgnoresGrid(g, piece_char, r, c) ==
    \/ ~InGrid(g, r, c)
    \/ OtherPieceAt(g, piece_char, r, c)

\* a cell the sliding piece cannot enter
Blocked(g, piece_char, r, c) ==
    \/ ~InGrid(g, r, c)
    \/ g.grid[r + 1][c + 1] = "X"
    \/ OtherPieceAt(g, piece_char, r, c)

\* the while loop of get_possible_moves: the landing cell from (r, c)
RECURSIVE Slide(_, _, _, _, _, _)
Slide(g, piece_char, r, c, dr, dc) ==
    IF Blocked(g, piece_char, r + dr, c + dc) THEN <<r, c>>
    ELSE Slide(g, piece_char, r + dr, c + dc, dr, dc)

\* the moves of one piece in one direction when the piece advances one
\* cell and stops
MovesOfOneStep(g, item, dir) ==
    LET r == item[2][1]
        c == item[2][2]
    IN IF Blocked(g, item[1], r + dir[1], c + dir[2]) THEN <<>>
       ELSE << <<item[1], <<r + dir[1], c + dir[2]>>, dir[3]>> >>

\* the moves of one piece in one direction when the landing cell is the
\* cell that stopped the slide, not the last cell entered
MovesOfOvershoot(g, item, dir) ==
    LET r == item[2][1]
        c == item[2][2]
        land == Slide(g, item[1], r, c, dir[1], dir[2])
    IN IF Blocked(g, item[1], r + dir[1], c + dir[2]) THEN <<>>
       ELSE << <<item[1], <<land[1] + dir[1], land[2] + dir[2]>>, dir[3]>> >>

\* the moves of one piece in one direction when the slide ends on the
\* first cell on its way that holds a target
MovesOfStopsOnTarget(g, item, dir) ==
    LET r == item[2][1]
        c == item[2][2]
        land == Slide(g, item[1], r, c, dir[1], dir[2])
        dist == (land[1] - r) * dir[1] + (land[2] - c) * dir[2]
        stops == {k \in 1..dist :
                     \E i \in DOMAIN g.targets :
                        g.targets[i][2] = <<r + k * dir[1], c + k * dir[2]>>}
        n == IF stops = {} THEN dist ELSE CHOOSE k \in stops : \A j \in stops : k <= j
    IN IF Blocked(g, item[1], r + dir[1], c + dir[2]) THEN <<>>
       ELSE IF n # 0 THEN << <<item[1], <<r + n * dir[1], c + n * dir[2]>>, dir[3]>> >>
       ELSE <<>>

\* the moves of one piece in one direction: none or one
MovesOf(g, item, dir) ==
    LET r == item[2][1]
        c == item[2][2]
        land == Slide(g, item[1], r, c, dir[1], dir[2])
    IN IF Blocked(g, item[1], r + dir[1], c + dir[2]) THEN <<>>
       ELSE IF land # <<r, c>> THEN << <<item[1], land, dir[3]>> >>
       ELSE <<>>

\* the moves of one piece, in the order of directions
MovesOfPiece(g, item) ==
    MovesOf(g, item, Directions[1]) \o MovesOf(g, item, Directions[2])
        \o MovesOf(g, item, Directions[3]) \o MovesOf(g, item, Directions[4])

\* the moves of the pieces lo..hi, in the order of self.pieces
RECURSIVE MovesFrom(_, _, _)
MovesFrom(g, lo, hi) ==
    IF lo > hi THEN <<>>
    ELSE IF lo = hi THEN MovesOfPiece(g, g.pieces[lo])
    ELSE LET mid == (lo + hi) \div 2 IN
         MovesFrom(g, lo, mid) \o MovesFrom(g, mid + 1, hi)

\* get_possible_moves: <<piece, landing, direction>> in emission order
GetPossibleMoves(g) == MovesFrom(g, 1, Len(g.pieces))

\* apply_move with new_grid built afresh: '.' everywhere but the moved piece
ApplyMoveFreshGrid(g, piece_char, new_pos) ==
    [grid    |-> [r \in DOMAIN g.grid |->
                    [c \in DOMAIN g.grid[r] |->
                        IF <<r - 1, c - 1>> = new_pos THEN piece_char ELSE "."]],
     pieces  |-> DictSet(g.pieces, piece_char, new_pos),
     targets |-> g.targets,
     width   |-> g.width,
     height  |-> g.height]

\* apply_move without `new_grid[old_r][old_c] = '.'`
ApplyMoveKeepsOldCell(g, piece_char, new_pos) ==
    [grid    |-> [r \in DOMAIN g.grid |->
                    [c \in DOMAIN g.grid[r] |->
                        IF <<r - 1, c - 1>> = new_pos THEN piece_char
                        ELSE g.grid[r][c]]],
     pieces  |-> DictSet(g.pieces, piece_char, new_pos),
     targets |-> g.targets,
     width   |-> g.width,
     height  |-> g.height]

\* apply_move
ApplyMove(g, piece_char, new_pos) ==
    LET old == DictGet(g.pieces, piece_char) IN
    [grid    |-> [r \in DOMAIN g.grid |->
                    [c \in DOMAIN g.grid[r] |->
                        IF <<r - 1, c - 1>> = new_pos THEN piece_char
                        ELSE IF <<r - 1, c - 1>> = old THEN "."
                        ELSE g.grid[r][c]]],
     pieces  |-> DictSet(g.pieces, piece_char, new_pos),
     targets |-> g.targets,
     width   |-> g.width,
     height  |-> g.height]

(***************************************************************************)
(* Generator: level serialization                                          *)
(***************************************************************************)
\* grid[r][c] after the three loops of _coords_to_level_string.  The loop
\* over the pieces runs after the obstacles and the loop over the targets
\* writes only where the cell is still '.', so the cell holds: the token of
\* the last piece placed on it (with its target when targets_pos has that
\* target on the cell), else 'X' for an obstacle, else the first target of
\* targets_pos placed on it, else '.'.
CellToken(pieces_pos, targets_pos, obstacles_pos, pos) ==
    LET pieces_here == {i \in DOMAIN pieces_pos : pieces_pos[i][2] = pos}
        targets_here == {i \in DOMAIN targets_pos : targets_pos[i][2] = pos}
    IN IF pieces_here # {}
       THEN LET piece_char == pieces_pos[MaxOf(pieces_here)][1]
                target_char == LowerCh(piece_char)
            IN IF DictHas(targets_pos, target_char)
                    /\ DictGet(targets_pos, target_char) = pos
               THEN <<piece_char, target_char>>
               ELSE <<piece_char>>
       ELSE IF \E i \in DOMAIN obstacles_pos : obstacles_pos[i] = pos THEN <<"X">>
       ELSE IF targets_here # {}
            THEN <<targets_pos[CHOOSE i \in targets_here : \A j \in targets_here : i <= j][1]>>
       ELSE <<".">>

\* _coords_to_level_string with the grid built as width rows of height cells
CoordsToLevelStringTransposed(width, height, pieces_pos, targets_pos, obstacles_pos) ==
    Join([r \in 1..width |->
             Join([c \in 1..height |->
                      CellToken(pieces_pos, targets_pos, obstacles_pos, <<r - 1, c - 1>>)],
                  <<" ">>)],
         <<";">>)

\* _coords_to_level_string
CoordsToLevelString(width, height, pieces_pos, targets_pos, obstacles_pos) ==
    Join([r \in 1..height |->
             Join([c \in 1..width |->
                      CellToken(pieces_pos, targets_pos, obstacles_pos, <<r - 1, c - 1>>)],
                  <<" ">>)],
         <<";">>)

(***************************************************************************)
(* Solver: _is_solvable_bfs                                                *)
(***************************************************************************)
LetterIndex(ch) == CHOOSE i \in DOMAIN UpperSeq : UpperSeq[i] = ch

\* the order of sorted() on the items of a dict with letter keys
ItemBefore(a, b) == LetterIndex(a[1]) < LetterIndex(b[1])

\* tuple(sorted(pieces.items())): the canonical key of a state
SortedItems(pieces) == SortSeq(pieces, ItemBefore)

\* move_str written without the space between piece and direction
MoveStrNoSpace(piece_char, direction_name) == <<piece_char>> \o direction_name

\* f"{piece_char} {direction_name}"
MoveStr(piece_char, direction_name) == <<piece_char, " ">> \o direction_name

\* the search state at entry when the start key is not put in visited
BfsStartUnvisited(game_instance, max_depth) ==
    IF IsWin(game_instance)
    THEN [status |-> "found", solution |-> <<>>, queue |-> <<>>, visited |-> {},
          max_depth |-> max_depth, enq |-> <<>>, expanded |-> <<>>]
    ELSE [status |-> "run", solution |-> <<>>,
          queue |-> << [game |-> game_instance, path |-> <<>>, depth |-> 0] >>,
          visited |-> {},
          max_depth |-> max_depth,
          enq |-> << SortedItems(game_instance.pieces) >>, expanded |-> <<>>]

\* The search state.  status is "run" inside the while loop, "found" after
\* a return of a solution text and "none" after the return of None.  enq
\* (the keys of all entries ever put in the queue) and expanded (the depths
\* of the entries whose moves were enumerated) record the history.
BfsStart(game_instance, max_depth) ==
    IF IsWin(game_instance)
    THEN [status |-> "found", solution |-> <<>>, queue |-> <<>>, visited |-> {},
          max_depth |-> max_depth, enq |-> <<>>, expanded |-> <<>>]
    ELSE [status |-> "run", solution |-> <<>>,
          queue |-> << [game |-> game_instance, path |-> <<>>, depth |-> 0] >>,
          visited |-> {SortedItems(game_instance.pieces)},
          max_depth |-> max_depth,
          enq |-> << SortedItems(game_instance.pieces) >>, expanded |-> <<>>]

\* the moves lo..hi of the for loop over possible_moves of one popped
\* entry; after the return of a solution no later move is looked at
RECURSIVE BfsExpand(_, _, _, _, _)
BfsExpand(b, cur, moves, lo, hi) ==
    IF lo > hi \/ b.status = "found" THEN b
    ELSE IF lo = hi
         THEN LET next_game_state == ApplyMove(cur.game, moves[lo][1], moves[lo][2])
                  new_path == Append(cur.path, MoveStr(moves[lo][1], moves[lo][3]))
                  pieces_tuple == SortedItems(next_game_state.pieces)
              IN IF IsWin(next_game_state)
                 THEN [b EXCEPT !.status = "found", !.solution = Join(new_path, <<";">>)]
                 ELSE IF pieces_tuple \notin b.visited
                      THEN [b EXCEPT !.visited = @ \cup {pieces_tuple},
                                     !.queue = Append(@, [game |-> next_game_state,
                                                          path |-> new_path,
                                                          depth |-> cur.depth + 1]),
                                     !.enq = Append(@, pieces_tuple)]
                 ELSE b
    ELSE LET mid == (lo + hi) \div 2 IN
         BfsExpand(BfsExpand(b, cur, moves, lo, mid), cur, moves, mid + 1, hi)

\* the for loop over possible_moves of one popped entry
BfsExpandAll(b, cur) ==
    LET moves == GetPossibleMoves(cur.game) IN BfsExpand(b, cur, moves, 1, Len(moves))

\* the loop pass popping the newest entry of the queue
BfsIterLifo(b) ==
    IF b.queue = <<>> THEN [b EXCEPT !.status = "none"]
    ELSE LET cur == b.queue[Len(b.queue)]
             popped == [b EXCEPT !.queue = SubSeq(@, 1, Len(@) - 1)]
         IN IF cur.depth >= b.max_depth THEN popped
            ELSE BfsExpandAll([popped EXCEPT !.expanded = Append(@, cur.depth)], cur)

\* the loop pass giving up one level early
BfsIterShallow(b) ==
    IF b.queue = <<>> THEN [b EXCEPT !.status = "none"]
    ELSE LET cur == Head(b.queue)
             popped == [b EXCEPT !.queue = Tail(@)]
         IN IF cur.depth + 1 >= b.max_depth THEN popped
            ELSE BfsExpandAll([popped EXCEPT !.expanded = Append(@, cur.depth)], cur)

\* the loop pass with the depth test `depth > max_depth`
BfsIterDeep(b) ==
    IF b.queue = <<>> THEN [b EXCEPT !.status = "none"]
    ELSE LET cur == Head(b.queue)
             popped == [b EXCEPT !.queue = Tail(@)]
         IN IF cur.depth > b.max_depth THEN popped
            ELSE BfsExpandAll([popped EXCEPT !.expanded = Append(@, cur.depth)], cur)

\* the loop pass without the depth test
BfsIterUnbounded(b) ==
    IF b.queue = <<>> THEN [b EXCEPT !.status = "none"]
    ELSE LET cur == Head(b.queue)
             popped == [b EXCEPT !.queue = Tail(@)]
         IN BfsExpandAll([popped EXCEPT !.expanded = Append(@, cur.depth)], cur)

\* the loop pass putting an entry at the depth bound back in the queue
BfsIterRequeue(b) ==
    IF b.queue = <<>> THEN [b EXCEPT !.status = "none"]
    ELSE LET cur == Head(b.queue)
             popped == [b EXCEPT !.queue = Tail(@)]
         IN IF cur.depth >= b.max_depth THEN [popped EXCEPT !.queue = Append(@, cur)]
            ELSE BfsExpandAll([popped EXCEPT !.expanded = Append(@, cur.depth)], cur)

\* one pass of `while queue:` (the exit of the loop included)
BfsIter(b) ==
    IF b.queue = <<>> THEN [b EXCEPT !.status = "none"]
    ELSE LET cur == Head(b.queue)
             popped == [b EXCEPT !.queue = Tail(@)]
         IN IF cur.depth >= b.max_depth THEN popped
            ELSE BfsExpandAll([popped EXCEPT !.expanded = Append(@, cur.depth)], cur)

\* n passes of the while loop, or fewer when the function returns
RECURSIVE BfsPasses(_, _)
BfsPasses(b, n) ==
    IF n <= 0 \/ b.status # "run" THEN b
    ELSE IF n = 1 THEN BfsIter(b)
    ELSE BfsPasses(BfsPasses(b, n \div 2), n - n \div 2)

\* the while loop up to the return, n passes and then twice as many
RECURSIVE BfsRun(_, _)
BfsRun(b, n) == IF b.status # "run" THEN b ELSE BfsRun(BfsPasses(b, n), 2 * n)

\* _is_solvable_bfs: the final search state; status "found" carries the
\* solution text, status "none" is the result None
IsSolvableBfs(game_instance, max_depth) ==
    BfsRun(BfsStart(game_instance, max_depth), 1)

(***************************************************************************)
(* Verifier: verify_kuboble_solution                                       *)
(***************************************************************************)
DirectionNames == {Up, Down, Left, Right}

\* a text as a dict key: the pieces dict has one-character keys
KeyOf(text) == IF Len(text) = 1 THEN text[1] ELSE ""

\* Results of the verifier: a returned boolean, or a raised exception.
Returned(v) == [raised |-> FALSE, value |-> v]

Raised == [raised |-> TRUE, value |-> FALSE]

\* the fragment parse guarding only against more than two tokens
VerifyParseFragmentLoose(raw_moves, move_idx, parsed_moves) ==
    LET raw_move == Strip(raw_moves[move_idx])
        parts == SplitWs(raw_move)
    IN IF raw_move = <<>>
       THEN (IF move_idx = Len(raw_moves) /\ parsed_moves = <<>>
             THEN [kind |-> "win"] ELSE [kind |-> "skip"])
       ELSE IF Len(parts) > 2 THEN [kind |-> "false"]
       ELSE IF Len(parts) < 2 THEN [kind |-> "raise"]
       ELSE IF Lower(parts[2]) \notin DirectionNames THEN [kind |-> "false"]
       ELSE [kind |-> "move", move |-> <<parts[1], Lower(parts[2])>>]

\* the fragment parse comparing the direction as written, without lower()
VerifyParseFragmentCaseSensitive(raw_moves, move_idx, parsed_moves) ==
    LET raw_move == Strip(raw_moves[move_idx])
        parts == SplitWs(raw_move)
    IN IF raw_move = <<>>
       THEN (IF move_idx = Len(raw_moves) /\ parsed_moves = <<>>
             THEN [kind |-> "win"] ELSE [kind |-> "skip"])
       ELSE IF Len(parts) # 2 THEN [kind |-> "false"]
       ELSE IF parts[2] \notin DirectionNames THEN [kind |-> "false"]
       ELSE [kind |-> "move", move |-> <<parts[1], parts[2]>>]

\* the fragment parse returning False at a blank fragment between moves
VerifyParseFragmentBlankFails(raw_moves, move_idx, parsed_moves) ==
    LET raw_move == Strip(raw_moves[move_idx])
        parts == SplitWs(raw_move)
    IN IF raw_move = <<>>
       THEN (IF move_idx = Len(raw_moves) /\ parsed_moves = <<>>
             THEN [kind |-> "win"]
             ELSE IF parsed_moves = <<>> THEN [kind |-> "skip"]
             ELSE [kind |-> "false"])
       ELSE IF Len(parts) # 2 THEN [kind |-> "false"]
       ELSE IF Lower(parts[2]) \notin DirectionNames THEN [kind |-> "false"]
       ELSE [kind |-> "move", move |-> <<parts[1], Lower(parts[2])>>]

\* One fragment of the solution text, given the moves parsed so far:
\* "skip" (blank fragment), "win" (return game.is_win()), "false"
\* (return False), "raise" (IndexError) or "move" with the parsed pair.
VerifyParseFragment(raw_moves, move_idx, parsed_moves) ==
    LET raw_move == Strip(raw_moves[move_idx])
        parts == SplitWs(raw_move)
    IN IF raw_move = <<>>
       THEN (IF move_idx = Len(raw_moves) /\ parsed_moves = <<>>
             THEN [kind |-> "win"] ELSE [kind |-> "skip"])
       ELSE IF Len(parts) # 2 THEN [kind |-> "false"]
       ELSE IF Len(parts) < 2 THEN [kind |-> "raise"]
       ELSE IF Lower(parts[2]) \notin DirectionNames THEN [kind |-> "false"]
       ELSE [kind |-> "move", move |-> <<parts[1], Lower(parts[2])>>]

\* the loop over raw_moves from move_idx on
RECURSIVE VerifyParseMoves(_, _, _)
VerifyParseMoves(raw_moves, move_idx, parsed_moves) ==
    IF move_idx > Len(raw_moves) THEN [kind |-> "moves", moves |-> parsed_moves]
    ELSE LET f == VerifyParseFragment(raw_moves, move_idx, parsed_moves) IN
         IF f.kind = "skip" THEN VerifyParseMoves(raw_moves, move_idx + 1, parsed_moves)
         ELSE IF f.kind = "move"
              THEN VerifyParseMoves(raw_moves, move_idx + 1, Append(parsed_moves, f.move))
         ELSE f

\* the match on the piece alone
MatchMoveAnyDirection(g, possible_moves, sol_piece_char, sol_direction_name) ==
    LET hits == {i \in DOMAIN possible_moves :
                    /\ <<possible_moves[i][1]>> = sol_piece_char
                    /\ possible_moves[i][2] # DictGet(g.pieces, possible_moves[i][1])}
    IN IF hits = {} THEN 0 ELSE CHOOSE i \in hits : \A j \in hits : i <= j

\* the first legal move matching the solution move, as an index into
\* possible_moves, or 0 for matched_game_move = None
MatchMove(g, possible_moves, sol_piece_char, sol_direction_name) ==
    LET hits == {i \in DOMAIN possible_moves :
                    /\ <<possible_moves[i][1]>> = sol_piece_char
                    /\ possible_moves[i][3] = sol_direction_name
                    /\ possible_moves[i][2] # DictGet(g.pieces, possible_moves[i][1])}
    IN IF hits = {} THEN 0 ELSE CHOOSE i \in hits : \A j \in hits : i <= j

\* the replay pass going on to the next move when none matches
VerifyReplayStepSkip(g, sol_move) ==
    IF ~DictHas(g.pieces, KeyOf(sol_move[1])) THEN [ok |-> FALSE, game |-> g]
    ELSE LET possible_moves == GetPossibleMoves(g)
             m == MatchMove(g, possible_moves, sol_move[1], sol_move[2])
         IN IF m = 0 THEN [ok |-> TRUE, game |-> g]
            ELSE [ok |-> TRUE,
                  game |-> ApplyMove(g, possible_moves[m][1], possible_moves[m][2])]

\* the replay pass going on to the next move when the piece is not on the
\* board
VerifyReplayStepAbsentOk(g, sol_move) ==
    IF ~DictHas(g.pieces, KeyOf(sol_move[1])) THEN [ok |-> TRUE, game |-> g]
    ELSE LET possible_moves == GetPossibleMoves(g)
             m == MatchMove(g, possible_moves, sol_move[1], sol_move[2])
         IN IF m = 0 THEN [ok |-> FALSE, game |-> g]
            ELSE [ok |-> TRUE,
                  game |-> ApplyMove(g, possible_moves[m][1], possible_moves[m][2])]

\* one pass of the replay loop: ok with the next state, or not ok for
\* `return False`
VerifyReplayStep(g, sol_move) ==
    IF ~DictHas(g.pieces, KeyOf(sol_move[1])) THEN [ok |-> FALSE, game |-> g]
    ELSE LET possible_moves == GetPossibleMoves(g)
             m == MatchMove(g, possible_moves, sol_move[1], sol_move[2])
         IN IF m = 0 THEN [ok |-> FALSE, game |-> g]
            ELSE [ok |-> TRUE,
                  game |-> ApplyMove(g, possible_moves[m][1], possible_moves[m][2])]

\* the replay loop from move i on, and the final is_win
RECURSIVE VerifyReplay(_, _, _)
VerifyReplay(g, parsed_moves, i) ==
    IF i > Len(parsed_moves) THEN Returned(IsWin(g))
    ELSE LET nxt == VerifyReplayStep(g, parsed_moves[i]) IN
         IF ~nxt.ok THEN Returned(FALSE)
         ELSE VerifyReplay(nxt.game, parsed_moves, i + 1)

\* verify_kuboble_solution
VerifyKubobleSolution(level_string, solution_string) ==
    LET g == ParseLevel(level_string) IN
    IF solution_string = <<>> \/ Strip(solution_string) = <<>>
    THEN Returned(IsWin(g))
    ELSE LET p == VerifyParseMoves(Split(solution_string, ";"), 1, <<>>) IN
         IF p.kind = "win" THEN Returned(IsWin(g))
         ELSE IF p.kind = "false" THEN Returned(FALSE)
         ELSE IF p.kind = "raise" THEN Raised
         ELSE IF p.moves = <<>> /\ Strip(solution_string) # <<>> THEN Returned(IsWin(g))
         ELSE VerifyReplay(g, p.moves, 1)

(***************************************************************************)
(* Generator: generate_kuboble_level                                       *)
(***************************************************************************)
MaxPieces == 2

MaxObstacles == 1

MaxAttempts == 2

MaxSolverDepth == 2

\* the letters available for pieces: the check num_pieces > 26
MaxPieceLetters == 26

\* the grids of the small calls, <<width, height>>
GenDims == {<<0, 0>>, <<1, 1>>, <<1, 3>>, <<2, 2>>, <<3, 2>>}

\* the grid on which calls with more than one attempt are made
RetryDims == <<2, 2>>

\* a grid with room for 24 pieces and their targets, searched to depth 0
LargeDims == <<8, 6>>

\* the attempt limits tried on a grid
AttemptLimits(d) == 0..(IF d = RetryDims THEN MaxAttempts ELSE 1)

\* the obstacle counts tried on a grid: the small ones, and one more than
\* the grid has cells
ObstacleCounts(d) == (0..MaxObstacles) \cup {d[1] * d[2] + 1}

SmallArgs(d) ==
    {[width |-> d[1], height |-> d[2], num_pieces |-> np, num_obstacles |-> no,
      max_generation_attempts |-> ma, max_solver_depth |-> sd,
      require_non_trivial_solution |-> nt] :
        np \in 0..MaxPieces, no \in ObstacleCounts(d),
        ma \in AttemptLimits(d), sd \in 0..MaxSolverDepth, nt \in BOOLEAN}

LargeArgs ==
    {[width |-> LargeDims[1], height |-> LargeDims[2], num_pieces |-> np,
      num_obstacles |-> 0, max_generation_attempts |-> 1, max_solver_depth |-> 0,
      require_non_trivial_solution |-> TRUE] : np \in {23, 24, 27}}

\* the calls of generate_kuboble_level that are made
GenArgs == UNION {SmallArgs(d) : d \in GenDims} \cup LargeArgs

\* [(r, c) for r in range(height) for c in range(width)]
AllCoords(width, height) ==
    [i \in 1..(width * height) |-> <<(i - 1) \div width, (i - 1) % width>>]

RECURSIVE InjSeqs(_, _)
InjSeqs(S, k) ==
    IF k = 0 THEN {<<>>}
    ELSE UNION {{<<x>> \o t : t \in InjSeqs(S \ {x}, k - 1)} : x \in S}

Min(a, b) == IF a <= b THEN a ELSE b

\* random.shuffle(all_coords), as the coordinates in the order pop() yields
\* them; only the first k popped are ever read.  Every order is drawn on
\* the small grids; on the large grid, the rotations of the row-major order.
Shuffles(width, height, k) ==
    LET all == AllCoords(width, height)
        n == width * height
    IN IF <<width, height>> = LargeDims
       THEN {[i \in 1..Min(n, k) |-> all[((i - 1 + s) % n) + 1]] : s \in {0, 1, 7}}
       ELSE InjSeqs({all[i] : i \in DOMAIN all}, Min(n, k))

\* the passes lo..hi of the loop placing pieces and targets; st holds
\* pieces_pos, targets_pos and the number of coordinates popped so far.
\* After the break (fewer than two coordinates left) no pass places.
RECURSIVE PlacePieces(_, _, _, _, _)
PlacePieces(st, coords, total, lo, hi) ==
    IF lo > hi \/ total - st.popped < 2 THEN st
    ELSE IF lo = hi
         THEN [pieces_pos  |-> Append(st.pieces_pos,
                                      <<UpperSeq[lo + 1], coords[st.popped + 1]>>),
               targets_pos |-> Append(st.targets_pos,
                                      <<LowerCh(UpperSeq[lo + 1]), coords[st.popped + 2]>>),
               popped      |-> st.popped + 2]
    ELSE LET mid == (lo + hi) \div 2 IN
         PlacePieces(PlacePieces(st, coords, total, lo, mid), coords, total, mid + 1, hi)

\* the passes lo..hi of the loop placing obstacles; st holds obstacles_pos
\* and the number of coordinates popped so far.  After the break (no
\* coordinate left) no pass places.
RECURSIVE PlaceObstacles(_, _, _, _, _)
PlaceObstacles(st, coords, total, lo, hi) ==
    IF lo > hi \/ total - st.popped = 0 THEN st
    ELSE IF lo = hi
         THEN [obstacles_pos |-> Append(st.obstacles_pos, coords[st.popped + 1]),
               popped        |-> st.popped + 1]
    ELSE LET mid == (lo + hi) \div 2 IN
         PlaceObstacles(PlaceObstacles(st, coords, total, lo, mid), coords, total, mid + 1, hi)

\* one pass of the attempt loop that returns the solution of the depth-0
\* search (current_solution) in place of the solution of the full search
GenAttemptBodyReturnsCurrent(a, coords) ==
    LET total == a.width * a.height
        pl == PlacePieces([pieces_pos |-> <<>>, targets_pos |-> <<>>, popped |-> 0],
                          coords, total, 0, a.num_pieces - 1)
        obstacles_pos == PlaceObstacles([obstacles_pos |-> <<>>, popped |-> pl.popped],
                                        coords, total, 1, a.num_obstacles).obstacles_pos
        level_string == CoordsToLevelString(a.width, a.height, pl.pieces_pos,
                                            pl.targets_pos, obstacles_pos)
        g == ParseLevel(level_string)
        current_solution == IsSolvableBfs(g, 0)
        solution == IsSolvableBfs(g, a.max_solver_depth)
        cand == [pieces_pos |-> pl.pieces_pos, targets_pos |-> pl.targets_pos,
                 obstacles_pos |-> obstacles_pos]
    IN IF Len(pl.pieces_pos) # a.num_pieces
       THEN [end |-> "short", assembled |-> FALSE, cand |-> cand,
             level_string |-> <<>>, solution |-> <<>>]
       ELSE IF a.require_non_trivial_solution
               /\ current_solution.status = "found" /\ current_solution.solution = <<>>
            THEN [end |-> "trivial", assembled |-> TRUE, cand |-> cand,
                  level_string |-> level_string, solution |-> <<>>]
       ELSE IF solution.status = "found"
            THEN [end |-> "return", assembled |-> TRUE, cand |-> cand,
                  level_string |-> level_string, solution |-> current_solution.solution]
       ELSE [end |-> "unsolved", assembled |-> TRUE, cand |-> cand,
             level_string |-> level_string, solution |-> <<>>]

\* one pass of the attempt loop that pops one coordinate for a piece and
\* its target: the target is put on the cell of its piece
GenAttemptBodySharedCell(a, coords) ==
    LET total == a.width * a.height
        popped == PlacePieces([pieces_pos |-> <<>>, targets_pos |-> <<>>, popped |-> 0],
                              coords, total, 0, a.num_pieces - 1)
        pl == [popped EXCEPT !.targets_pos =
                  [i \in DOMAIN popped.pieces_pos |->
                      <<LowerCh(popped.pieces_pos[i][1]), popped.pieces_pos[i][2]>>]]
        obstacles_pos == PlaceObstacles([obstacles_pos |-> <<>>, popped |-> pl.popped],
                                        coords, total, 1, a.num_obstacles).obstacles_pos
        level_string == CoordsToLevelString(a.width, a.height, pl.pieces_pos,
                                            pl.targets_pos, obstacles_pos)
        g == ParseLevel(level_string)
        current_solution == IsSolvableBfs(g, 0)
        solution == IsSolvableBfs(g, a.max_solver_depth)
        cand == [pieces_pos |-> pl.pieces_pos, targets_pos |-> pl.targets_pos,
                 obstacles_pos |-> obstacles_pos]
    IN IF Len(pl.pieces_pos) # a.num_pieces
       THEN [end |-> "short", assembled |-> FALSE, cand |-> cand,
             level_string |-> <<>>, solution |-> <<>>]
       ELSE IF a.require_non_trivial_solution
               /\ current_solution.status = "found" /\ current_solution.solution = <<>>
            THEN [end |-> "trivial", assembled |-> TRUE, cand |-> cand,
                  level_string |-> level_string, solution |-> <<>>]
       ELSE IF solution.status = "found"
            THEN [end |-> "return", assembled |-> TRUE, cand |-> cand,
                  level_string |-> level_string, solution |-> solution.solution]
       ELSE [end |-> "unsolved", assembled |-> TRUE, cand |-> cand,
             level_string |-> level_string, solution |-> <<>>]

\* one pass of `for attempt in range(max_generation_attempts)` with the
\* shuffle coords: the candidate and how the pass ended ("short": not all
\* pieces placed, "trivial": already won and rejected, "unsolved": the
\* solver returned None, "return": the level and its solution are returned)
GenAttemptBody(a, coords) ==
    LET total == a.width * a.height
        pl == PlacePieces([pieces_pos |-> <<>>, targets_pos |-> <<>>, popped |-> 0],
                          coords, total, 0, a.num_pieces - 1)
        obstacles_pos == PlaceObstacles([obstacles_pos |-> <<>>, popped |-> pl.popped],
                                        coords, total, 1, a.num_obstacles).obstacles_pos
        level_string == CoordsToLevelString(a.width, a.height, pl.pieces_pos,
                                            pl.targets_pos, obstacles_pos)
        g == ParseLevel(level_string)
        current_solution == IsSolvableBfs(g, 0)
        solution == IsSolvableBfs(g, a.max_solver_depth)
        cand == [pieces_pos |-> pl.pieces_pos, targets_pos |-> pl.targets_pos,
                 obstacles_pos |-> obstacles_pos]
    IN IF Len(pl.pieces_pos) # a.num_pieces
       THEN [end |-> "short", assembled |-> FALSE, cand |-> cand,
             level_string |-> <<>>, solution |-> <<>>]
       ELSE IF a.require_non_trivial_solution
               /\ current_solution.status = "found" /\ current_solution.solution = <<>>
            THEN [end |-> "trivial", assembled |-> TRUE, cand |-> cand,
                  level_string |-> level_string, solution |-> <<>>]
       ELSE IF solution.status = "found"
            THEN [end |-> "return", assembled |-> TRUE, cand |-> cand,
                  level_string |-> level_string, solution |-> solution.solution]
       ELSE [end |-> "unsolved", assembled |-> TRUE, cand |-> cand,
             level_string |-> level_string, solution |-> <<>>]

\* The call: the num_pieces == 0 return and the two ValueErrors.
GenEnter ==
    /\ pc = "gen_call"
    /\ IF args.num_pieces = 0
       THEN /\ pc' = "gen_returned"
            /\ out' = [kind |-> "pair",
                       level |-> CoordsToLevelString(args.width, args.height, <<>>, <<>>, <<>>),
                       solution |-> <<>>]
       ELSE IF args.num_pieces > MaxPieceLetters
                 \/ args.num_pieces * 2 + args.num_obstacles > args.width * args.height
            THEN /\ pc' = "gen_returned"
                 /\ out' = [kind |-> "ValueError"]
       ELSE /\ pc' = "gen_loop"
            /\ out' = out
    /\ UNCHANGED <<args, gen, bfs, game, ver>>

\* a placement attempt made also when the attempt limit is already reached
GenAttemptOneMore ==
    /\ pc = "gen_loop"
    /\ gen.attempt <= args.max_generation_attempts
    /\ \E coords \in Shuffles(args.width, args.height,
                              2 * args.num_pieces + args.num_obstacles) :
          LET r == GenAttemptBody(args, coords) IN
          /\ gen' = [attempt |-> gen.attempt + 1, last |-> r]
          /\ IF r.end = "return"
             THEN /\ pc' = "gen_returned"
                  /\ out' = [kind |-> "pair", level |-> r.level_string,
                             solution |-> r.solution]
             ELSE /\ pc' = pc
                  /\ out' = out
    /\ UNCHANGED <<args, bfs, game, ver>>

\* One placement attempt, with any shuffle.
GenAttempt ==
    /\ pc = "gen_loop"
    /\ gen.attempt < args.max_generation_attempts
    /\ \E coords \in Shuffles(args.width, args.height,
                              2 * args.num_pieces + args.num_obstacles) :
          LET r == GenAttemptBody(args, coords) IN
          /\ gen' = [attempt |-> gen.attempt + 1, last |-> r]
          /\ IF r.end = "return"
             THEN /\ pc' = "gen_returned"
                  /\ out' = [kind |-> "pair", level |-> r.level_string,
                             solution |-> r.solution]
             ELSE /\ pc' = pc
                  /\ out' = out
    /\ UNCHANGED <<args, bfs, game, ver>>

\* The attempt limit is reached: return None.
GenExhausted ==
    /\ pc = "gen_loop"
    /\ gen.attempt >= args.max_generation_attempts
    /\ pc' = "gen_returned"
    /\ out' = [kind |-> "None"]
    /\ UNCHANGED <<args, gen, bfs, game, ver>>

\* The returned pair is handed to verify_kuboble_solution.
VerifyGenerated ==
    /\ pc = "gen_returned"
    /\ out.kind = "pair"
    /\ ver' = VerifyKubobleSolution(out.level, out.solution)
    /\ pc' = "gen_verified"
    /\ UNCHANGED <<args, gen, bfs, game, out>>

InitGen ==
    /\ pc = "gen_call"
    /\ args \in GenArgs
    /\ gen = [attempt |-> 0, last |-> Unused]
    /\ bfs = Unused
    /\ game = Unused
    /\ out = Unused
    /\ ver = Unused

NextGen == GenEnter \/ GenAttempt \/ GenExhausted \/ VerifyGenerated

SpecGen == InitGen /\ [][NextGen]_vars

(***************************************************************************)
(* Level texts                                                             *)
(***************************************************************************)
\* a single cell, piece A on its target
LvWon == <<"A","a">>

\* A at (0,0), target a at (1,1)
LvSimple == <<"A"," ","."," ",";"," ","."," ","a">>

\* an obstacle right of A
LvBlocked == <<"A"," ","X"," ",";"," ","."," ","a">>

\* each piece above the other's target
LvSwap == <<"A"," ","B"," ",";"," ","b"," ","a">>

\* two routes of three moves to a
LvDetour == <<"."," ",".",";","A"," ",".",";","."," ",".",";","X"," ","a">>

\* A slides over its target: unsolvable
LvOvershoot == <<"A"," ","a"," ",".">>

\* A has no target
LvNoTarget == <<"A"," ","."," ",";","."," ","b">>

\* no piece
LvNoPiece == <<"."," ","a">>

\* rows without spaces: one character per cell
LvDots == <<"A",".","B",";",".","a",".","b">>

\* B must wait for A
LvCorridor == <<"B"," ","A"," ","."," ",";","X"," ","X"," ","a",";","b"," ","."," ",".">>

\* each piece one slide from its target
LvPair == <<"A"," ","b",";","a"," ","B">>

\* two moves by going down first, three by going right first
LvTwoWays == <<"A"," ","."," ","X",";","."," ","."," ","a">>

\* the empty text
LvEmpty == <<>>

\* rows of different lengths
LvRagged == <<"A"," ","."," ",".",";","a">>

\* tokens of several characters: A on target b, an obstacle written after B
LvTokens == <<"A","b"," ","."," ","B","X",";","a"," ","."," ",".">>

Levels == {LvWon, LvPair, LvSimple, LvBlocked, LvSwap, LvDetour, LvOvershoot,
           LvNoTarget, LvNoPiece, LvDots, LvCorridor, LvTwoWays}

(***************************************************************************)
(* The solver, one pass of its loop per step                               *)
(***************************************************************************)
MaxDepth == 4

InitSolve ==
    /\ pc = "bfs_call"
    /\ args \in {[level_string |-> l, max_depth |-> md] :
                    l \in Levels, md \in 0..MaxDepth}
    /\ gen = Unused
    /\ bfs = Unused
    /\ game = Unused
    /\ out = Unused
    /\ ver = Unused

\* The level is parsed and _is_solvable_bfs entered: the is_win return,
\* or the queue and visited set are set up.
BfsEnter ==
    /\ pc = "bfs_call"
    /\ game' = ParseLevel(args.level_string)
    /\ bfs' = BfsStart(game', args.max_depth)
    /\ pc' = IF bfs'.status = "run" THEN "bfs_loop" ELSE "bfs_returned"
    /\ UNCHANGED <<args, gen, out, ver>>

\* One pass of the while loop: pop, depth check, expansion; or its exit.
BfsStep ==
    /\ pc = "bfs_loop"
    /\ bfs' = BfsIter(bfs)
    /\ pc' = IF bfs'.status = "run" THEN "bfs_loop" ELSE "bfs_returned"
    /\ UNCHANGED <<args, gen, game, out, ver>>

NextSolve == BfsEnter \/ BfsStep

SpecSolve == InitSolve /\ [][NextSolve]_vars

(***************************************************************************)
(* The verifier on level and solution texts                                *)
(***************************************************************************)
MaxMoves == 3

VerifyLevels == {LvWon, LvSimple, LvBlocked, LvDetour, LvPair, LvNoPiece,
                 LvOvershoot, LvEmpty, LvRagged, LvTokens, LvNoTarget}

\* the moves "<piece> <direction>" of the piece letters of a level text
PlainMoves(level_string) ==
    {<<level_string[k], " ">> \o d :
        k \in {n \in DOMAIN level_string :
                  IsUpper(level_string[n]) /\ level_string[n] # "X"},
        d \in DirectionNames}

\* the obstacle marker in the place of the piece
FrObstacle == <<"X", " ", "d", "o", "w", "n">>

\* a piece that is not on the board
FrAbsent == <<"C"," ","d","o","w","n">>

\* a target letter in the place of the piece
FrLowerPiece == <<"a"," ","d","o","w","n">>

\* a direction outside the four
FrBadDirection == <<"A"," ","d","i","a","g","o","n","a","l">>

\* one token
FrOneToken == <<"A">>

\* three tokens
FrThreeTokens == <<"A"," ","u","p"," ","d","o","w","n">>

\* a well-formed move with other spacing and case
FrSpaced == <<" ","A"," "," ","U","P"," ">>

\* a blank fragment
FrBlank == <<" ">>

\* an empty fragment
FrEmpty == <<>>

OddFragments == {FrObstacle, FrAbsent, FrLowerPiece, FrBadDirection, FrOneToken,
                 FrThreeTokens, FrSpaced, FrBlank, FrEmpty}

\* the fragment sequences of length n: plain moves, and at most one odd
\* fragment among them
FragmentSeqs(level_string, n) ==
    {fs \in [1..n -> PlainMoves(level_string) \cup OddFragments] :
        \A i, j \in 1..n : (fs[i] \in OddFragments /\ fs[j] \in OddFragments) => i = j}

\* the solution texts: fragments joined by ';', and a whitespace-only text
Solutions(level_string) ==
    {Join(fs, <<";">>) :
        fs \in UNION {FragmentSeqs(level_string, n) : n \in 0..MaxMoves}}
        \cup {<<" ", " ">>}

InitVerify ==
    /\ pc = "ver_call"
    /\ \E l \in VerifyLevels :
          args \in {[level_string |-> l, solution_string |-> s] :
                       s \in Solutions(l)}
    /\ gen = Unused
    /\ bfs = Unused
    /\ game = Unused
    /\ out = Unused
    /\ ver = Unused

\* verify_kuboble_solution(level_string, solution_string) is called
VerCall ==
    /\ pc = "ver_call"
    /\ ver' = VerifyKubobleSolution(args.level_string, args.solution_string)
    /\ out' = [kind |-> "first"]
    /\ pc' = "ver_returned"
    /\ UNCHANGED <<args, gen, bfs, game>>

\* fragment i of the text is a move: two tokens, the second a direction
IsMoveFragment(fragment) ==
    LET parts == SplitWs(Strip(fragment)) IN
    Len(parts) = 2 /\ Lower(parts[2]) \in DirectionNames

\* the text with the direction of its fragment i replaced by d
WithDirection(solution_string, i, d) ==
    LET raw_moves == Split(solution_string, ";")
        parts == SplitWs(Strip(raw_moves[i]))
    IN Join([raw_moves EXCEPT ![i] = parts[1] \o <<" ">> \o d], <<";">>)

\* the text with one more fragment
WithAppended(solution_string, fragment) ==
    IF solution_string = <<>> THEN fragment
    ELSE solution_string \o <<";">> \o fragment

\* A solution that verified is verified again with the direction of one
\* of its moves replaced by another direction.
VerMutate ==
    /\ pc = "ver_returned"
    /\ ver = Returned(TRUE)
    /\ \E i \in 1..Len(Split(args.solution_string, ";")), d \in DirectionNames :
          LET raw_moves == Split(args.solution_string, ";") IN
          /\ IsMoveFragment(raw_moves[i])
          /\ Lower(SplitWs(Strip(raw_moves[i]))[2]) # d
          /\ args' = [args EXCEPT !.solution_string = WithDirection(@, i, d)]
          /\ out' = [kind |-> "mutated", before |-> args.solution_string,
                     index |-> i, of |-> Len(raw_moves)]
    /\ ver' = VerifyKubobleSolution(args'.level_string, args'.solution_string)
    /\ pc' = "ver_again"
    /\ UNCHANGED <<gen, bfs, game>>

\* A solution that verified is verified again with one more move.
VerAppend ==
    /\ pc = "ver_returned"
    /\ ver = Returned(TRUE)
    /\ \E f \in PlainMoves(args.level_string) \cup {FrAbsent, FrObstacle} :
          /\ args' = [args EXCEPT !.solution_string = WithAppended(@, f)]
          /\ out' = [kind |-> "appended", before |-> args.solution_string,
                     fragment |-> f]
    /\ ver' = VerifyKubobleSolution(args'.level_string, args'.solution_string)
    /\ pc' = "ver_again"
    /\ UNCHANGED <<gen, bfs, game>>

NextVerify == VerCall \/ VerMutate \/ VerAppend

SpecVerify == InitVerify /\ [][NextVerify]_vars

(***************************************************************************)
(* Lenient reading: verify_kuboble_solution on a text and on the same text *)
(* written in another letter case or with other blank fragments            *)
(***************************************************************************)
MaxFragments == 2

InitLenient ==
    /\ pc = "ver_call"
    /\ \E l \in {LvWon, LvSimple, LvBlocked, LvPair, LvNoPiece} :
          args \in {[level_string |-> l, solution_string |-> s] :
                       s \in {Join(fs, <<";">>) :
                                fs \in UNION {FragmentSeqs(l, n) : n \in 0..MaxFragments}}
                              \cup {<<" ", " ">>}}
    /\ gen = Unused
    /\ bfs = Unused
    /\ game = Unused
    /\ out = Unused
    /\ ver = Unused

\* A text that was verified is verified again with the letter case of one
\* direction label changed: one of its letters, or all of them.
VerRecase ==
    /\ pc = "ver_returned"
    /\ \E i \in 1..Len(Split(args.solution_string, ";")) :
          LET raw_moves == Split(args.solution_string, ";")
              parts == SplitWs(Strip(raw_moves[i]))
              last == Len(RStrip(raw_moves[i]))
              \* the places of the fragment that hold its direction label:
              \* those of the second of its two tokens
              label == IF Len(parts) # 2 THEN {}
                       ELSE (last - Len(parts[2]) + 1)..last
              \* str.swapcase() on one character
              SwapCase(ch) ==
                  IF IsUpper(ch) THEN LowerCh(ch)
                  ELSE IF IsLower(ch)
                       THEN UpperSeq[CHOOSE n \in DOMAIN LowerSeq : LowerSeq[n] = ch]
                  ELSE ch
          IN /\ label # {}
             /\ \E places \in {label} \cup {{k} : k \in label} :
                   args' = [args EXCEPT !.solution_string =
                              Join([raw_moves EXCEPT ![i] =
                                      [k \in DOMAIN @ |->
                                          IF k \in places THEN SwapCase(@[k]) ELSE @[k]]],
                                   <<";">>)]
    /\ out' = [kind |-> "recased", before |-> args.solution_string, result |-> ver]
    /\ ver' = VerifyKubobleSolution(args'.level_string, args'.solution_string)
    /\ pc' = "ver_again"
    /\ UNCHANGED <<gen, bfs, game>>

\* A text that was verified is verified again with an empty or blank
\* fragment put at one of its fragment boundaries, or with one of its
\* blank fragments taken out.
VerBlank ==
    /\ pc = "ver_returned"
    /\ LET raw_moves == Split(args.solution_string, ";") IN
       \/ \E i \in 0..Len(raw_moves), blank \in {<<>>, <<" ">>} :
             /\ args' = [args EXCEPT !.solution_string =
                           Join(SubSeq(raw_moves, 1, i) \o <<blank>>
                                  \o SubSeq(raw_moves, i + 1, Len(raw_moves)),
                                <<";">>)]
             /\ out' = [kind |-> "blank_inserted", before |-> args.solution_string,
                        result |-> ver]
       \/ \E i \in 1..Len(raw_moves) :
             /\ Strip(raw_moves[i]) = <<>>
             /\ args' = [args EXCEPT !.solution_string =
                           Join(SubSeq(raw_moves, 1, i - 1)
                                  \o SubSeq(raw_moves, i + 1, Len(raw_moves)),
                                <<";">>)]
             /\ out' = [kind |-> "blank_removed", before |-> args.solution_string,
                        result |-> ver]
    /\ ver' = VerifyKubobleSolution(args'.level_string, args'.solution_string)
    /\ pc' = "ver_again"
    /\ UNCHANGED <<gen, bfs, game>>

NextLenient == VerCall \/ VerRecase \/ VerBlank

SpecLenient == InitLenient /\ [][NextLenient]_vars

(***************************************************************************)
(* Parse: KubobleGame(level_string) on level texts built from cell tokens  *)
(***************************************************************************)
MaxRowTokens == 2

\* cell tokens: the markers, letters, letter pairs, and characters the
\* format does not name
ParseTokens ==
    { <<".">>, <<"X">>, <<"A">>, <<"a">>, <<"B">>, <<"A","a">>, <<"a","A">>,
      <<"A","b">>, <<"X","a">>, <<"#">>, <<"A","#">> }

\* rows: up to MaxRowTokens tokens written with or without spaces, and rows
\* with blanks around and between the tokens or with a tab
ParseRows ==
    LET seqs == UNION {[1..n -> ParseTokens] : n \in 0..MaxRowTokens}
    IN {Join(ts, sep) : ts \in seqs, sep \in {<<" ">>, <<>>}}
         \cup { <<" ", "A", " ", " ", "B", " ">>, <<"A", "\t", "B">>,
                <<"\t", "A", " ", "a">>, <<"A", "\t", ".">>, <<" ">> }

\* level texts: one row, or a row followed by one of a few second rows
ParseTexts ==
    LET second == { <<>>, <<"a">>, <<"A", " ", "b">>, <<".", " ", "X", " ", ".", " ", "X">>,
                    <<";", "B">> }
    IN ParseRows \cup {r \o <<";">> \o t : r \in ParseRows, t \in second}

InitParse ==
    /\ pc = "parse_call"
    /\ args \in {[level_string |-> l] : l \in ParseTexts}
    /\ gen = Unused
    /\ bfs = Unused
    /\ game = Unused
    /\ out = Unused
    /\ ver = Unused

\* KubobleGame(level_string): _parse_level has no raise statement, the
\* constructor returns for every text
ParseCall ==
    /\ pc = "parse_call"
    /\ game' = ParseLevel(args.level_string)
    /\ out' = [raised |-> FALSE,
               processed_rows_tokens |-> ProcessedRowsTokens(args.level_string)]
    /\ pc' = "parsed"
    /\ UNCHANGED <<args, gen, bfs, ver>>

NextParse == ParseCall

SpecParse == InitParse /\ [][NextParse]_vars

(***************************************************************************)
(* Play: legal moves applied to a parsed level                             *)
(***************************************************************************)
MaxPlayMoves == 4

\* three pieces in a row above their targets
LvThree == <<"A", " ", "B", " ", "C", ";", "c", " ", "a", " ", "b">>

\* the levels played
PlayLevels == Levels \cup {LvThree, LvRagged}

InitPlay ==
    /\ pc = "play_call"
    /\ args \in {[level_string |-> l] : l \in PlayLevels}
    /\ gen = Unused
    /\ bfs = Unused
    /\ game = Unused
    /\ out = Unused
    /\ ver = Unused

\* KubobleGame(level_string)
PlayParse ==
    /\ pc = "play_call"
    /\ game' = ParseLevel(args.level_string)
    /\ out' = [moves |-> 0]
    /\ pc' = "play"
    /\ UNCHANGED <<args, gen, bfs, ver>>

\* one of get_possible_moves() is applied with apply_move
PlayMove ==
    /\ pc = "play"
    /\ out.moves < MaxPlayMoves
    /\ \E i \in DOMAIN GetPossibleMoves(game) :
          LET m == GetPossibleMoves(game)[i] IN
          game' = ApplyMove(game, m[1], m[2])
    /\ out' = [moves |-> out.moves + 1]
    /\ UNCHANGED <<pc, args, gen, bfs, ver>>

NextPlay == PlayParse \/ PlayMove

SpecPlay == InitPlay /\ [][NextPlay]_vars

(***************************************************************************)
(* A level given to any of the three entry points: the game played with    *)
(* get_possible_moves and apply_move, the solver, the verifier             *)
(***************************************************************************)
SpecCalls ==
    (InitPlay \/ InitSolve \/ InitVerify)
        /\ [][NextPlay \/ NextSolve \/ NextVerify]_vars

(***************************************************************************)
(* Objects: the lists and dicts of the games as objects with an identity.  *)
(* The heap is the sequence of the objects allocated so far and the address *)
(* of an object is its index.  A row of a grid is a list of characters, a   *)
(* grid is a list of row addresses, a pieces or targets dict is a sequence  *)
(* of <<key, value>>; a KubobleGame holds the addresses of its grid, pieces *)
(* and targets and the integers width and height.                          *)
(***************************************************************************)
MaxHeld == 3

\* the heap with one more object: the new object has address Len(heap) + 1
Alloc(heap, v) == heap \o <<v>>

\* the heap with rows[lo..hi] allocated as new list objects
RECURSIVE AllocRows(_, _, _, _)
AllocRows(heap, rows, lo, hi) ==
    IF lo > hi THEN heap
    ELSE IF lo = hi THEN Alloc(heap, rows[lo])
    ELSE LET mid == (lo + hi) \div 2 IN
         AllocRows(AllocRows(heap, rows, lo, mid), rows, mid + 1, hi)

\* the heap after an assignment to the object at address a
Store(heap, a, v) == [i \in DOMAIN heap |-> IF i = a THEN v ELSE heap[i]]

\* a list after list[i] = x
SetAt(list, i, x) == [k \in DOMAIN list |-> IF k = i THEN x ELSE list[k]]

\* the fields of the game object obj, read through the heap
Deref(heap, obj) ==
    [grid    |-> [r \in DOMAIN heap[obj.grid] |-> heap[heap[obj.grid][r]]],
     pieces  |-> heap[obj.pieces],
     targets |-> heap[obj.targets],
     width   |-> obj.width,
     height  |-> obj.height]

\* KubobleGame(level_string): the rows, the grid, the pieces and the targets
\* are new objects
HeapNewGame(heap, level_string) ==
    LET g == ParseLevel(level_string)
        n == Len(heap)
        h1 == AllocRows(heap, g.grid, 1, g.height)
        h2 == Alloc(h1, [r \in 1..g.height |-> n + r])
        h3 == Alloc(h2, g.pieces)
        h4 == Alloc(h3, g.targets)
    IN [heap |-> h4,
        obj  |-> [grid |-> n + g.height + 1, pieces |-> n + g.height + 2,
                  targets |-> n + g.height + 3, width |-> g.width, height |-> g.height]]

\* get_possible_moves of the game object obj: it reads the fields only
HeapGetPossibleMoves(heap, obj) == GetPossibleMoves(Deref(heap, obj))

\* the three assignments of apply_move, made to the row objects at
\* row_addrs and the dict object at pieces_addr
HeapApplyWrites(heap, row_addrs, pieces_addr, old_pos, piece_char, new_pos) ==
    LET old_row == row_addrs[old_pos[1] + 1]
        w1 == Store(heap, old_row, SetAt(heap[old_row], old_pos[2] + 1, "."))
        new_row == row_addrs[new_pos[1] + 1]
        w2 == Store(w1, new_row, SetAt(w1[new_row], new_pos[2] + 1, piece_char))
    IN Store(w2, pieces_addr, DictSet(w2[pieces_addr], piece_char, new_pos))

\* apply_move with new_grid = self.grid[:], a new list of the same rows
HeapApplyMoveSharedRows(heap, obj, piece_char, new_pos) ==
    LET n == Len(heap)
        h1 == Alloc(heap, heap[obj.grid])
        h2 == Alloc(h1, heap[obj.pieces])
        old_pos == DictGet(heap[obj.pieces], piece_char)
    IN [heap |-> HeapApplyWrites(h2, h2[n + 1], n + 2, old_pos, piece_char, new_pos),
        obj  |-> [grid |-> n + 1, pieces |-> n + 2, targets |-> obj.targets,
                  width |-> obj.width, height |-> obj.height]]

\* apply_move: new_grid is a new list of copies of the rows, new_pieces a
\* copy of the dict; the targets dict is shared with the original
HeapApplyMove(heap, obj, piece_char, new_pos) ==
    LET n == Len(heap)
        rows == heap[obj.grid]
        h1 == AllocRows(heap, [r \in DOMAIN rows |-> heap[rows[r]]], 1, Len(rows))
        h2 == Alloc(h1, [r \in DOMAIN rows |-> n + r])
        h3 == Alloc(h2, heap[obj.pieces])
        old_pos == DictGet(heap[obj.pieces], piece_char)
    IN [heap |-> HeapApplyWrites(h3, h3[n + Len(rows) + 1], n + Len(rows) + 2,
                                 old_pos, piece_char, new_pos),
        obj  |-> [grid |-> n + Len(rows) + 1, pieces |-> n + Len(rows) + 2,
                  targets |-> obj.targets, width |-> obj.width, height |-> obj.height]]

\* The heap is in game, the game objects held (the start state and the
\* states produced from it, as the solver's queue holds them) in bfs, the
\* fields each had when it was created in out, and the last list returned
\* by get_possible_moves in ver.
InitHeap ==
    /\ pc = "heap_call"
    /\ args \in {[level_string |-> l] : l \in PlayLevels}
    /\ gen = Unused
    /\ bfs = <<>>
    /\ game = <<>>
    /\ out = <<>>
    /\ ver = Unused

\* game = KubobleGame(level_string)
HeapParse ==
    /\ pc = "heap_call"
    /\ LET r == HeapNewGame(game, args.level_string) IN
       /\ game' = r.heap
       /\ bfs' = <<r.obj>>
       /\ out' = <<Deref(r.heap, r.obj)>>
    /\ pc' = "heap_run"
    /\ UNCHANGED <<args, gen, ver>>

\* possible_moves = held.get_possible_moves() for a held game
HeapMoves ==
    /\ pc = "heap_run"
    /\ \E i \in DOMAIN bfs : ver' = Returned(HeapGetPossibleMoves(game, bfs[i]))
    /\ UNCHANGED <<pc, args, gen, bfs, game, out>>

\* next_game_state = held.apply_move(piece, new_pos) for a held game and
\* one of its possible moves; the new game is held too
HeapApply ==
    /\ pc = "heap_run"
    /\ Len(bfs) < MaxHeld
    /\ \E i \in DOMAIN bfs : \E k \in DOMAIN HeapGetPossibleMoves(game, bfs[i]) :
          LET m == HeapGetPossibleMoves(game, bfs[i])[k]
              r == HeapApplyMove(game, bfs[i], m[1], m[2])
          IN /\ game' = r.heap
             /\ bfs' = Append(bfs, r.obj)
             /\ out' = Append(out, Deref(r.heap, r.obj))
    /\ UNCHANGED <<pc, args, gen, ver>>

NextHeap == HeapParse \/ HeapMoves \/ HeapApply

SpecHeap == InitHeap /\ [][NextHeap]_vars

\* C20. Neither get_possible_moves nor apply_move changes the state it is
\* called on: the pieces, targets, dimensions and cached grid of every game
\* held (the start state handed to the solver and every state in the
\* queue) are what they were when the game was created, whatever was
\* expanded since.
C20_HeldStatesUnchanged ==
    pc = "heap_run"
        => /\ Len(out) = Len(bfs)
           /\ \A i \in DOMAIN bfs : Deref(game, bfs[i]) = out[i]

\* the start state was expanded twice, by two different moves, and
\* get_possible_moves was called since
C20_Witness ==
    /\ pc = "heap_run" /\ Len(bfs) = 3
    /\ out[2] # out[3]
    /\ \A i \in {2, 3} : \E k \in DOMAIN GetPossibleMoves(out[1]) :
          out[i] = ApplyMove(out[1], GetPossibleMoves(out[1])[k][1],
                             GetPossibleMoves(out[1])[k][2])
    /\ ver # Unused

\* the obstacle cells of g in row-major order
ObstacleList(g) ==
    LET Marked(pos) == g.grid[pos[1] + 1][pos[2] + 1] = "X" IN
    SelectSeq(AllCoords(g.width, g.height), Marked)

\* serialize: _coords_to_level_string on the dimensions, pieces, targets
\* and obstacles of a state
Serialize(g) ==
    CoordsToLevelString(g.width, g.height, g.pieces, g.targets, ObstacleList(g))

\* C10. Round-trip of reachable states: for any state s reached from a
\* parsed level by legal moves, parse(serialize(s)) has the dimensions and
\* the piece, target and obstacle maps of s.
C10_ReachableRoundTrip ==
    pc = "play"
        => LET g == ParseLevel(Serialize(game)) IN
           /\ g.width = game.width
           /\ g.height = game.height
           /\ DictItems(g.pieces) = DictItems(game.pieces)
           /\ DictItems(g.targets) = DictItems(game.targets)
           /\ ObstacleCells(g) = ObstacleCells(game)

(***************************************************************************)
(* Reference semantics of the game, stated on piece configurations: a      *)
(* configuration is the set of <<piece, position>> items.  Used by the     *)
(* claims only.                                                            *)
(***************************************************************************)
RefDirs == {<<-1, 0>>, <<1, 0>>, <<0, -1>>, <<0, 1>>}

\* the cell is on the board of g, not an obstacle, and no piece but p is on it
RefFree(g, cfg, p, cell) ==
    /\ cell[1] \in 0..(g.height - 1)
    /\ cell[2] \in 0..(g.width - 1)
    /\ cell \notin ObstacleCells(g)
    /\ \A it \in cfg : it[1] # p => it[2] # cell

RefStep(cell, dir, n) == <<cell[1] + n * dir[1], cell[2] + n * dir[2]>>

\* the lengths of the legal slide of item it in direction dir: empty when
\* the adjacent cell is not free, else the one length at which it stops
RefSlideLengths(g, cfg, it, dir) ==
    {n \in 1..(g.width + g.height) :
        /\ \A k \in 1..n : RefFree(g, cfg, it[1], RefStep(it[2], dir, k))
        /\ ~RefFree(g, cfg, it[1], RefStep(it[2], dir, n + 1))}

\* the configurations one legal move away
RefSuccessors(g, cfg) ==
    {(cfg \ {it}) \cup {<<it[1], RefStep(it[2], dir, n)>>} :
        <<it, dir, n>> \in {x \in cfg \X RefDirs \X (1..(g.width + g.height)) :
                               x[3] \in RefSlideLengths(g, cfg, x[1], x[2])}}

\* the configurations at most n legal moves away from those of S
RECURSIVE RefReach(_, _, _)
RefReach(g, S, n) ==
    IF n <= 0 THEN S
    ELSE LET T == S \cup UNION {RefSuccessors(g, cfg) : cfg \in S} IN
         IF T = S THEN S ELSE RefReach(g, T, n - 1)

\* every piece stands on the target with its lowercase letter, and there
\* is a piece
RefWon(g, cfg) ==
    /\ cfg # {}
    /\ \A it \in cfg : <<LowerSeq[LetterIndex(it[1])], it[2]>> \in DictItems(g.targets)

\* some configuration at most n legal moves from the start of g is won
RefWinWithin(g, n) ==
    n >= 0 /\ \E cfg \in RefReach(g, {DictItems(g.pieces)}, n) : RefWon(g, cfg)

\* the number of moves of a solution text
NumMoves(solution) ==
    IF solution = <<>> THEN 0
    ELSE Cardinality({i \in DOMAIN solution : solution[i] = ";"}) + 1

(***************************************************************************)
(* Claims about the solver                                                 *)
(***************************************************************************)
\* C2. Shortest path: when the solver returns a solution of k moves from a
\* start state, no sequence of fewer than k legal moves from that start
\* state reaches a winning state.
C2_ShortestPath ==
    (pc = "bfs_returned" /\ bfs.status = "found")
        => ~RefWinWithin(game, NumMoves(bfs.solution) - 1)

\* a solution of four moves is returned
C2_Witness ==
    pc = "bfs_returned" /\ bfs.status = "found" /\ NumMoves(bfs.solution) = 4

\* C3. Solver completeness within the bound: for any start state and
\* max_depth >= 0, the solver returns None only when no sequence of at most
\* max_depth legal moves leads from start to a winning state; whenever such
\* a sequence exists it returns a solution.
C3_CompleteWithinBound ==
    pc = "bfs_returned"
        => (bfs.status = "none" <=> ~RefWinWithin(game, args.max_depth))

\* None is returned after expansions, for a level that is won one move
\* beyond the bound
C3_Witness ==
    /\ pc = "bfs_returned" /\ bfs.status = "none"
    /\ Len(bfs.expanded) >= 2
    /\ RefWinWithin(game, args.max_depth + 1)

\* C29. Solver soundness: for any parsed level and any max_depth, if the
\* solver returns a solution string, replaying it from the start state
\* uses only legal moves and ends in a winning state, i.e.
\* verify_kuboble_solution(level, solution) is true.
C29_SolverSoundness ==
    (pc = "bfs_returned" /\ bfs.status = "found")
        => VerifyKubobleSolution(args.level_string, bfs.solution) = Returned(TRUE)

\* a solution that moves two pieces is returned and verifies
C29_Witness ==
    /\ pc = "bfs_returned" /\ bfs.status = "found"
    /\ NumMoves(bfs.solution) >= 2 /\ Len(game.pieces) = 2
    /\ VerifyKubobleSolution(args.level_string, bfs.solution) = Returned(TRUE)

\* C30. For every start state and every max_depth the solver returns the
\* empty solution if and only if the start state is already won; called
\* with max_depth = 0 it returns the empty solution when start is won and
\* 'no solution' otherwise, without expanding any state.
C30_EmptySolutionIffStartWon ==
    pc = "bfs_returned"
        => /\ (bfs.status = "found" /\ bfs.solution = <<>>)
                 <=> RefWon(game, DictItems(game.pieces))
           /\ args.max_depth = 0
                 => /\ bfs.expanded = <<>>
                    /\ bfs.status = "none" <=> ~RefWon(game, DictItems(game.pieces))

\* with max_depth = 0 a start state with a piece off its target gives
\* 'no solution' although two moves win
C30_Witness ==
    /\ pc = "bfs_returned" /\ args.max_depth = 0
    /\ bfs.status = "none" /\ bfs.expanded = <<>>
    /\ RefWinWithin(game, 2)

\* C31. Depth bound: every solution the solver returns has at most
\* max_depth moves, and no state whose path length equals max_depth (or
\* is beyond it) is ever expanded.
C31_DepthBound ==
    pc \in {"bfs_loop", "bfs_returned"}
        => /\ bfs.status = "found" => NumMoves(bfs.solution) <= args.max_depth
           /\ \A i \in DOMAIN bfs.expanded : bfs.expanded[i] < args.max_depth

\* a solution of exactly max_depth moves is returned after expansions at
\* the depths below
C31_Witness ==
    /\ pc = "bfs_returned" /\ bfs.status = "found"
    /\ args.max_depth >= 2
    /\ NumMoves(bfs.solution) = args.max_depth
    /\ \E i \in DOMAIN bfs.expanded : bfs.expanded[i] = args.max_depth - 1

\* C32. During one search, each distinct piece configuration is enqueued
\* at most once: no two entries ever placed in the BFS queue have equal
\* piece-position maps, and the start configuration is never re-enqueued.
C32_EnqueuedAtMostOnce ==
    pc \in {"bfs_loop", "bfs_returned"}
        => \A i, j \in DOMAIN bfs.enq :
              i # j => DictItems(bfs.enq[i]) # DictItems(bfs.enq[j])

\* a search of two pieces has put five configurations in the queue, a
\* move back to the start among the moves it looked at
C32_Witness ==
    /\ pc = "bfs_returned"
    /\ Len(bfs.enq) >= 5
    /\ Len(game.pieces) = 2
    /\ DictItems(bfs.enq[1]) = DictItems(game.pieces)

\* the number of entries the search has taken out of its queue
Popped(b) == Len(b.enq) - Len(b.queue)

\* C39. The BFS solver terminates for every parsed level and every
\* max_depth, including a max_depth larger than the number of reachable
\* piece configurations: inside the while loop the next pass changes the
\* search state, every pass returns or takes one more entry out of the
\* queue, and the entries ever put in the queue are never more than the
\* placements of the pieces on the cells of the grid, whatever max_depth
\* is.
C39_SolverTerminates ==
    /\ [](pc = "bfs_loop" => BfsIter(bfs) # bfs)
    /\ [](pc \in {"bfs_loop", "bfs_returned"}
            => Len(bfs.enq) <= Cardinality([DOMAIN game.pieces ->
                                  (1..game.height) \X (1..game.width)]))
    /\ [][pc = "bfs_loop"
            => pc' = "bfs_returned" \/ Popped(bfs') > Popped(bfs)]_vars

\* 'no solution' is returned with max_depth larger than the number of
\* configurations the search met
C39_Witness ==
    /\ pc = "bfs_returned" /\ bfs.status = "none"
    /\ args.max_depth > Len(bfs.enq)
    /\ Len(bfs.expanded) = Len(bfs.enq)

(***************************************************************************)
(* Claims about the verifier                                               *)
(***************************************************************************)
\* the vector of a direction name
RefDirOf(d) ==
    IF d = Up THEN <<-1, 0>> ELSE IF d = Down THEN <<1, 0>>
    ELSE IF d = Left THEN <<0, -1>> ELSE <<0, 1>>

\* the items of cfg that a move <<piece text, direction name>> can slide
RefMovable(g, cfg, mv) ==
    {it \in cfg : /\ <<it[1]>> = mv[1]
                  /\ RefSlideLengths(g, cfg, it, RefDirOf(mv[2])) # {}}

\* the configuration after a move that RefMovable allows
RefAfter(g, cfg, mv) ==
    LET it == CHOOSE x \in RefMovable(g, cfg, mv) : TRUE
        n == CHOOSE k \in RefSlideLengths(g, cfg, it, RefDirOf(mv[2])) : TRUE
    IN (cfg \ {it}) \cup {<<it[1], RefStep(it[2], RefDirOf(mv[2]), n)>>}

\* every move from the i-th on is legal in the state reached so far, and
\* the state after the last one is won
RECURSIVE RefReplayWins(_, _, _, _)
RefReplayWins(g, cfg, moves, i) ==
    IF i > Len(moves) THEN RefWon(g, cfg)
    ELSE /\ RefMovable(g, cfg, moves[i]) # {}
         /\ RefReplayWins(g, RefAfter(g, cfg, moves[i]), moves, i + 1)

\* the configuration after the moves from the i-th on, all of them legal
RECURSIVE RefReplay(_, _, _, _)
RefReplay(g, cfg, moves, i) ==
    IF i > Len(moves) THEN cfg
    ELSE RefReplay(g, RefAfter(g, cfg, moves[i]), moves, i + 1)

\* the number of leading moves that are legal in turn
RECURSIVE RefLegalPrefix(_, _, _, _)
RefLegalPrefix(g, cfg, moves, i) ==
    IF i > Len(moves) \/ RefMovable(g, cfg, moves[i]) = {} THEN i - 1
    ELSE RefLegalPrefix(g, RefAfter(g, cfg, moves[i]), moves, i + 1)

\* every fragment of the text is a move
WellFormed(solution_string) ==
    LET raw_moves == Split(solution_string, ";") IN
    /\ Strip(solution_string) # <<>>
    /\ \A i \in DOMAIN raw_moves : IsMoveFragment(raw_moves[i])

\* the moves <<piece text, direction name>> of a well-formed text
MovesOfText(solution_string) ==
    LET raw_moves == Split(solution_string, ";") IN
    [i \in DOMAIN raw_moves |->
        LET parts == SplitWs(Strip(raw_moves[i])) IN <<parts[1], Lower(parts[2])>>]

StartOf(level_string) == DictItems(ParseLevel(level_string).pieces)

\* C4. For a non-blank solution whose fragments are all well formed, the
\* verifier returns true if and only if every move in order names a piece
\* on the board and a direction in which it has a legal slide in the state
\* reached so far, and the state after the last move is won.
C4_VerifyIffLegalReplayWins ==
    (pc \in {"ver_returned", "ver_again"} /\ WellFormed(args.solution_string))
        => ver = Returned(RefReplayWins(ParseLevel(args.level_string),
                                        StartOf(args.level_string),
                                        MovesOfText(args.solution_string), 1))

\* a solution of three moves verifies
C4_WitnessTrue ==
    /\ pc = "ver_returned" /\ ver = Returned(TRUE)
    /\ WellFormed(args.solution_string)
    /\ Len(MovesOfText(args.solution_string)) = 3

\* C5. For an empty or whitespace-only solution text the verifier returns
\* true if and only if the parsed level is already won: there is a piece
\* and every piece is on its own target.
C5_BlankIffAlreadyWon ==
    (pc = "ver_returned" /\ Strip(args.solution_string) = <<>>)
        => ver = Returned(RefWon(ParseLevel(args.level_string),
                                 StartOf(args.level_string)))

\* a whitespace-only solution verifies on a level that is already won
C5_Witness ==
    /\ pc = "ver_returned" /\ ver = Returned(TRUE)
    /\ args.solution_string # <<>> /\ Strip(args.solution_string) = <<>>

\* the text has a fragment that is not blank and is not a move
HasMalformedFragment(solution_string) ==
    LET raw_moves == Split(solution_string, ";") IN
    \E i \in DOMAIN raw_moves :
        Strip(raw_moves[i]) # <<>> /\ ~IsMoveFragment(raw_moves[i])

\* the text is well formed and one of its moves, the earlier ones being
\* legal, names no piece of the board or a direction without a legal slide
HasIllegalMove(level_string, solution_string) ==
    /\ WellFormed(solution_string)
    /\ RefLegalPrefix(ParseLevel(level_string), StartOf(level_string),
                      MovesOfText(solution_string), 1)
          < Len(MovesOfText(solution_string))

\* C6. The verifier returns a boolean and never raises, for every level
\* text and every solution text; a fragment that does not split into two
\* tokens, a direction outside the four, a piece that is not on the board
\* or a move that is not legal in the current state each give false.
C6_NeverRaisesMalformedFalse ==
    pc \in {"ver_returned", "ver_again"}
        => /\ ver.raised = FALSE
           /\ ver.value \in BOOLEAN
           /\ (HasMalformedFragment(args.solution_string)
                 \/ HasIllegalMove(args.level_string, args.solution_string))
                => ver = Returned(FALSE)

\* a one-token fragment after a legal move has been rejected
C6_Witness ==
    /\ pc = "ver_returned" /\ ver = Returned(FALSE)
    /\ \E i \in DOMAIN Split(args.solution_string, ";") :
          /\ i > 1
          /\ Len(SplitWs(Strip(Split(args.solution_string, ";")[i]))) = 1
          /\ IsMoveFragment(Split(args.solution_string, ";")[1])
          /\ RefMovable(ParseLevel(args.level_string), StartOf(args.level_string),
                        MovesOfText(<<>> \o Split(args.solution_string, ";")[1])[1]) # {}

\* C7, as stated. If a solution verifies, the solution with the direction
\* of any single move replaced by another direction does not.
C7_AnyMoveMutationFails ==
    (pc = "ver_again" /\ out.kind = "mutated") => ver = Returned(FALSE)

\* C7. If a solution verifies, the solution with the direction of its last
\* move replaced by another of the four directions does not.
C7_LastMoveMutationFails ==
    (pc = "ver_again" /\ out.kind = "mutated" /\ out.index = out.of)
        => ver = Returned(FALSE)

\* the last of three moves of a verified solution has been replaced by a
\* direction in which the piece does slide
C7_Witness ==
    /\ pc = "ver_again" /\ out.kind = "mutated" /\ out.index = out.of
    /\ out.of = 3
    /\ WellFormed(args.solution_string)
    /\ ~HasIllegalMove(args.level_string, args.solution_string)

\* the appended move is not legal in the state the verified solution ends in
AppendedIllegal ==
    LET g == ParseLevel(args.level_string)
        before == IF Strip(out.before) = <<>> THEN <<>> ELSE MovesOfText(out.before)
        final == RefReplay(g, StartOf(args.level_string), before, 1)
    IN RefMovable(g, final, MovesOfText(out.fragment)[1]) = {}

\* C8. If a solution verifies, the solution with one more move that is not
\* legal in the final state (a blocked direction, or a piece that is not on
\* the board) does not.
C8_AppendedIllegalFails ==
    (pc = "ver_again" /\ out.kind = "appended" /\ WellFormed(args.solution_string)
        /\ AppendedIllegal)
        => ver = Returned(FALSE)

\* a blocked move of a piece of the board has been appended to a verified
\* solution of two moves
C8_Witness ==
    /\ pc = "ver_again" /\ out.kind = "appended"
    /\ WellFormed(args.solution_string) /\ AppendedIllegal
    /\ out.fragment \in PlainMoves(args.level_string)
    /\ Len(MovesOfText(args.solution_string)) = 3

\* the game the replay loop holds after the moves from the i-th on
RECURSIVE ReplayedGame(_, _, _)
ReplayedGame(g, parsed_moves, i) ==
    IF i > Len(parsed_moves) THEN g
    ELSE ReplayedGame(VerifyReplayStep(g, parsed_moves[i]).game, parsed_moves, i + 1)

\* the game at the end of the replay of a text that verifies
FinalGame(level_string, solution_string) ==
    LET p == VerifyParseMoves(Split(solution_string, ";"), 1, <<>>) IN
    ReplayedGame(ParseLevel(level_string),
                 IF Strip(solution_string) = <<>> \/ p.kind # "moves" THEN <<>>
                 ELSE p.moves, 1)

\* the appended fragment is a legal move of the state the verified
\* solution ends in
AppendedLegal ==
    LET final == FinalGame(args.level_string, out.before)
        parts == SplitWs(Strip(out.fragment))
        moves == GetPossibleMoves(final)
    IN \E k \in DOMAIN moves :
          <<moves[k][1]>> = parts[1] /\ moves[k][3] = Lower(parts[2])

\* C36. From any won state every legal move leads to a state that is not
\* won; hence appending any further legal move to a solution that verifies
\* makes verify_kuboble_solution return false.
C36_MoveFromWonLeavesWin ==
    /\ (pc = "ver_returned" /\ ver = Returned(TRUE))
          => LET final == FinalGame(args.level_string, args.solution_string) IN
             /\ IsWin(final)
             /\ \A k \in DOMAIN GetPossibleMoves(final) :
                   ~IsWin(ApplyMove(final, GetPossibleMoves(final)[k][1],
                                    GetPossibleMoves(final)[k][2]))
    /\ (pc = "ver_again" /\ out.kind = "appended" /\ AppendedLegal)
          => ver = Returned(FALSE)

\* a legal move has been appended to a verified solution of two moves on
\* a board of two pieces
C36_Witness ==
    /\ pc = "ver_again" /\ out.kind = "appended" /\ AppendedLegal
    /\ WellFormed(args.solution_string)
    /\ Len(MovesOfText(args.solution_string)) = 3
    /\ Len(ParseLevel(args.level_string).pieces) = 2
    /\ ver = Returned(FALSE)

(***************************************************************************)
(* Claims about the game: win predicate, move generation, move application *)
(***************************************************************************)
\* C15. is_win(state) is true if and only if the piece map is non-empty
\* and, for every piece present, the target with the piece's lowercase
\* letter exists and lies at exactly the piece's position; pieces standing
\* on each other's targets, a piece without its target, and a board with
\* no pieces are all not won.
C15_WinIffEveryPieceOnOwnTarget ==
    pc = "play"
        => /\ IsWin(game) <=> RefWon(game, DictItems(game.pieces))
           /\ (args.level_string \in {LvSwap, LvNoPiece} /\ out.moves = 0) => ~IsWin(game)
           /\ args.level_string = LvNoTarget => ~IsWin(game)

\* a state reached by moves is won
C15_Witness == pc = "play" /\ out.moves >= 1 /\ IsWin(game)

\* the moves get_possible_moves emits for piece p with direction name d
EmittedFor(g, p, d) ==
    LET moves == GetPossibleMoves(g) IN
    {k \in DOMAIN moves : moves[k][1] = p /\ moves[k][3] = d}

\* the cell next to cell in the direction Directions[i]
Adjacent(cell, i) == <<cell[1] + Directions[i][1], cell[2] + Directions[i][2]>>

\* C16. get_possible_moves emits a move for a (piece, direction) if and
\* only if the cell adjacent to the piece in that direction is inside the
\* grid, is not an obstacle and holds no other piece; it emits at most one
\* move per (piece, direction), and every emitted move's landing position
\* differs from the piece's current position.
C16_MoveIffAdjacentFree ==
    pc = "play"
        => LET cfg == DictItems(game.pieces)
               moves == GetPossibleMoves(game)
           IN /\ \A it \in cfg : \A i \in DOMAIN Directions :
                    LET emitted == EmittedFor(game, it[1], Directions[i][3]) IN
                    /\ emitted # {} <=> RefFree(game, cfg, it[1], Adjacent(it[2], i))
                    /\ Cardinality(emitted) <= 1
                    /\ \A k \in emitted : moves[k][2] # it[2]
              /\ \A k \in DOMAIN moves :
                    /\ \E it \in cfg : it[1] = moves[k][1]
                    /\ \E i \in DOMAIN Directions : Directions[i][3] = moves[k][3]

\* after a move, a piece has another piece next to it in one direction and
\* a move in another
C16_Witness ==
    /\ pc = "play" /\ out.moves >= 1
    /\ \E it \in DictItems(game.pieces) : \E i, j \in DOMAIN Directions :
          /\ OtherPieceAt(game, it[1], Adjacent(it[2], i)[1], Adjacent(it[2], i)[2])
          /\ EmittedFor(game, it[1], Directions[i][3]) = {}
          /\ EmittedFor(game, it[1], Directions[j][3]) # {}

\* the item of the piece named by move m of g, its direction index, and
\* the number of cells from the piece to the landing cell of m
SlideOf(g, m) ==
    LET it == CHOOSE it \in DictItems(g.pieces) : it[1] = m[1]
        i == CHOOSE i \in DOMAIN Directions : Directions[i][3] = m[3]
    IN [item |-> it, dir |-> <<Directions[i][1], Directions[i][2]>>,
        lengths |-> {n \in 1..(g.width + g.height) :
                        m[2] = RefStep(it[2], <<Directions[i][1], Directions[i][2]>>, n)}]

\* C17. Slide physics / no-passthrough: for every emitted move the landing
\* cell lies on the piece's row or column in the labelled direction, every
\* cell from the one adjacent to the start through the landing cell holds
\* neither an obstacle nor another piece, and the cell immediately beyond
\* the landing cell is off-grid, an obstacle or another piece.
C17_SlideStopsAtFirstObstruction ==
    pc = "play"
        => LET cfg == DictItems(game.pieces)
               moves == GetPossibleMoves(game)
           IN \A k \in DOMAIN moves :
                 LET sl == SlideOf(game, moves[k]) IN
                 /\ Cardinality(sl.lengths) = 1
                 /\ \A n \in sl.lengths :
                       /\ \A j \in 1..n :
                             RefFree(game, cfg, sl.item[1], RefStep(sl.item[2], sl.dir, j))
                       /\ ~RefFree(game, cfg, sl.item[1], RefStep(sl.item[2], sl.dir, n + 1))

\* after a move, some move slides two cells or more and stops in front of
\* another piece or in front of an obstacle
C17_Witness ==
    /\ pc = "play" /\ out.moves >= 1
    /\ LET moves == GetPossibleMoves(game)
           Beyond(k) == LET sl == SlideOf(game, moves[k]) IN
                        RefStep(moves[k][2], sl.dir, 1)
           Long(k) == \A n \in SlideOf(game, moves[k]).lengths : n >= 2
       IN \E k \in DOMAIN moves :
             /\ Long(k)
             /\ \/ OtherPieceAt(game, moves[k][1], Beyond(k)[1], Beyond(k)[2])
                \/ Beyond(k) \in ObstacleCells(game)

\* the state of g with its pieces inserted in the given order of their
\* indices and a grid that keeps only the obstacle marks
Reordered(g, order) ==
    [grid    |-> [r \in DOMAIN g.grid |->
                    [c \in DOMAIN g.grid[r] |->
                        IF g.grid[r][c] = "X" THEN "X" ELSE "."]],
     pieces  |-> [i \in DOMAIN order |-> g.pieces[order[i]]],
     targets |-> g.targets,
     width   |-> g.width,
     height  |-> g.height]

\* the moves of a state as a set
MoveSet(g) == LET moves == GetPossibleMoves(g) IN {moves[k] : k \in DOMAIN moves}

\* C18. Determinism: get_possible_moves applied to two states with equal
\* dimensions, piece positions and obstacle cells yields the same set of
\* (piece, landing, direction) moves, regardless of the insertion order of
\* the pieces.
C18_MoveSetOrderIndependent ==
    pc = "play"
        => \A order \in InjSeqs(DOMAIN game.pieces, Len(game.pieces)) :
              MoveSet(Reordered(game, order)) = MoveSet(game)

\* after a move, a state of three pieces in which some piece has a move
\* and some piece has another piece next to it
C18_Witness ==
    /\ pc = "play" /\ out.moves >= 1
    /\ Len(game.pieces) = 3
    /\ GetPossibleMoves(game) # <<>>
    /\ \E it \in DictItems(game.pieces) : \E i \in DOMAIN Directions :
          OtherPieceAt(game, it[1], Adjacent(it[2], i)[1], Adjacent(it[2], i)[2])

\* the cells of g a piece p can be moved to: inside the grid, not an
\* obstacle, no other piece on them (the landing cells of the legal moves
\* of p are among them)
Destinations(g, p) ==
    {cell \in (0..(g.height - 1)) \X (0..(g.width - 1)) :
        RefFree(g, DictItems(g.pieces), p, cell)}

\* C19. apply_move(piece, destination) returns a state whose piece map
\* equals the original's except that the named piece is at destination;
\* width, height, targets, obstacle cells and every other piece's position
\* are identical to the original's.  The destination is any cell the piece
\* can be moved to, every landing cell of get_possible_moves included.
C19_ApplyMoveChangesOnePiece ==
    pc = "play"
        => /\ \A k \in DOMAIN GetPossibleMoves(game) :
                 GetPossibleMoves(game)[k][2]
                     \in Destinations(game, GetPossibleMoves(game)[k][1])
           /\ \A it \in DictItems(game.pieces) : \A dest \in Destinations(game, it[1]) :
                 LET h == ApplyMove(game, it[1], dest) IN
                 /\ DictItems(h.pieces) = (DictItems(game.pieces) \ {it}) \cup {<<it[1], dest>>}
                 /\ Len(h.pieces) = Len(game.pieces)
                 /\ \A i \in DOMAIN game.pieces :
                       /\ h.pieces[i][1] = game.pieces[i][1]
                       /\ game.pieces[i][1] # it[1] => h.pieces[i] = game.pieces[i]
                 /\ h.width = game.width
                 /\ h.height = game.height
                 /\ h.targets = game.targets
                 /\ ObstacleCells(h) = ObstacleCells(game)

\* a state produced by apply_move on a board with an obstacle and two
\* pieces, one of which can move again
C19_Witness ==
    /\ pc = "play" /\ out.moves >= 1
    /\ ObstacleCells(game) # {}
    /\ Len(game.pieces) = 2
    /\ GetPossibleMoves(game) # <<>>

\* C21. In every state reachable by legal moves from any parsed level, no
\* two pieces occupy the same cell and no piece occupies an obstacle cell
\* (a cell the parsed level marks 'X').
C21_PiecesApartAndOffObstacles ==
    pc = "play"
        => /\ \A i, j \in DOMAIN game.pieces :
                 i # j => game.pieces[i][2] # game.pieces[j][2]
           /\ \A i \in DOMAIN game.pieces :
                 game.pieces[i][2] \notin ObstacleCells(ParseLevel(args.level_string))

\* after two moves, two pieces stand on neighbouring cells of a board with
\* an obstacle
C21_Witness ==
    /\ pc = "play" /\ out.moves >= 2
    /\ ObstacleCells(ParseLevel(args.level_string)) # {}
    /\ \E it \in DictItems(game.pieces) : \E i \in DOMAIN Directions :
          OtherPieceAt(game, it[1], Adjacent(it[2], i)[1], Adjacent(it[2], i)[2])

\* C22. In every state reachable by legal moves from any parsed level,
\* every piece position, target position and obstacle cell lies within
\* [0,height) x [0,width): the grid has height rows of width cells, which
\* hold the obstacle marks, and every position of the two maps is a cell
\* of it.
C22_PositionsInsideGrid ==
    pc = "play"
        => /\ Len(game.grid) = game.height
           /\ \A r \in DOMAIN game.grid : Len(game.grid[r]) = game.width
           /\ \A i \in DOMAIN game.pieces :
                 /\ game.pieces[i][2][1] \in 0..(game.height - 1)
                 /\ game.pieces[i][2][2] \in 0..(game.width - 1)
           /\ \A i \in DOMAIN game.targets :
                 /\ game.targets[i][2][1] \in 0..(game.height - 1)
                 /\ game.targets[i][2][2] \in 0..(game.width - 1)

\* on the level with a short second row, the piece has slid to the last
\* column of the second row
C22_Witness ==
    /\ pc = "play" /\ out.moves >= 2
    /\ args.level_string = LvRagged
    /\ game.pieces = << <<"A", <<1, 2>> >> >>

\* some fragment of the text has two tokens, the second none of the four
\* direction labels in any letter case
HasBadLabel(solution_string) ==
    LET raw_moves == Split(solution_string, ";") IN
    \E i \in DOMAIN raw_moves :
       LET parts == SplitWs(Strip(raw_moves[i])) IN
       Len(parts) = 2 /\ Lower(parts[2]) \notin DirectionNames

\* C27. Changing the letter case of any direction label in a solution
\* text never changes the result of verify_kuboble_solution, while a label
\* outside {up, down, left, right} makes the result false even when the
\* level is already won.
C27_DirectionCaseInsensitive ==
    /\ (pc = "ver_again" /\ out.kind = "recased") => ver = out.result
    /\ (pc \in {"ver_returned", "ver_again"} /\ HasBadLabel(args.solution_string))
          => ver = Returned(FALSE)

\* a solution of two moves still verifies with a label in another case
C27_Witness ==
    /\ pc = "ver_again" /\ out.kind = "recased"
    /\ ver = Returned(TRUE)
    /\ Len(Split(args.solution_string, ";")) >= 2
    /\ args.solution_string # Lower(args.solution_string)

\* a won level with a label outside the four gives false
C27_WitnessWon ==
    /\ pc = "ver_returned"
    /\ args.level_string = LvWon
    /\ HasBadLabel(args.solution_string)
    /\ ver = Returned(FALSE)

\* C28. Inserting or removing empty or whitespace-only fragments (extra
\* ';' delimiters, leading, trailing or repeated) in a solution text never
\* changes the result of verify_kuboble_solution; a solution of only
\* delimiters is judged like the empty solution.
C28_BlankFragmentsIgnored ==
    /\ (pc = "ver_again" /\ out.kind \in {"blank_inserted", "blank_removed"})
          => ver = out.result
    /\ (/\ pc \in {"ver_returned", "ver_again"}
        /\ \A k \in DOMAIN args.solution_string :
              args.solution_string[k] \in Whitespace \cup {";"})
          => ver = VerifyKubobleSolution(args.level_string, <<>>)

\* a solution of two moves still verifies with a blank fragment between
\* the moves
C28_Witness ==
    /\ pc = "ver_again" /\ out.kind = "blank_inserted"
    /\ ver = Returned(TRUE)
    /\ LET raw_moves == Split(args.solution_string, ";") IN
       \E i \in DOMAIN raw_moves :
          /\ 1 < i /\ i < Len(raw_moves)
          /\ Strip(raw_moves[i]) = <<>>
          /\ IsMoveFragment(raw_moves[i - 1]) /\ IsMoveFragment(raw_moves[i + 1])

\* C33. The cached grid never drifts from the piece map: in every state
\* reachable by legal moves from any parsed level, a grid cell holds piece
\* letter p exactly when pieces[p] is that cell, and the set of grid cells
\* marked 'X' equals the obstacle set of the initial parse.
C33_GridFollowsPieces ==
    pc = "play"
        => /\ \A pos \in (0..(game.height - 1)) \X (0..(game.width - 1)) :
                 LET mark == game.grid[pos[1] + 1][pos[2] + 1] IN
                 mark \notin {".", "X"} => <<mark, pos>> \in DictItems(game.pieces)
           /\ \A it \in DictItems(game.pieces) :
                 game.grid[it[2][1] + 1][it[2][2] + 1] = it[1]
           /\ ObstacleCells(game) = ObstacleCells(ParseLevel(args.level_string))

\* after three moves on a board with an obstacle, both pieces have left
\* their first cells
C33_Witness ==
    /\ pc = "play" /\ out.moves >= 3
    /\ ObstacleCells(game) # {}
    /\ Len(game.pieces) = 2
    /\ DictItems(game.pieces) \cap DictItems(ParseLevel(args.level_string).pieces) = {}

\* the cells of g that hold a target
TargetCells(g) == {g.targets[i][2] : i \in DOMAIN g.targets}

\* target maps other than that of g: none, and all targets of g on one cell
OtherTargets(g) ==
    {<<>>} \cup {[i \in DOMAIN g.targets |-> <<g.targets[i][1], cell>>] :
                    cell \in (0..(g.height - 1)) \X (0..(g.width - 1))}

\* C35. Targets never influence movement: two states that differ only in
\* their targets have the same legal moves, and a piece slides over a cell
\* that holds only a target (including its own target) without stopping
\* there: a move lands on a target cell only when the cell beyond it is
\* off-grid, an obstacle or another piece.
C35_TargetsDoNotAffectMoves ==
    pc = "play"
        => /\ \A t \in OtherTargets(game) :
                 GetPossibleMoves([game EXCEPT !.targets = t]) = GetPossibleMoves(game)
           /\ \A k \in DOMAIN GetPossibleMoves(game) :
                 LET m == GetPossibleMoves(game)[k]
                     sl == SlideOf(game, m)
                 IN m[2] \in TargetCells(game)
                       => ~RefFree(game, DictItems(game.pieces), m[1],
                                   RefStep(m[2], sl.dir, 1))

\* after a move, a piece has a move that passes over the cell of its own
\* target and lands beyond it
C35_Witness ==
    /\ pc = "play" /\ out.moves >= 1
    /\ \E k \in DOMAIN GetPossibleMoves(game) :
          LET m == GetPossibleMoves(game)[k]
              sl == SlideOf(game, m)
          IN \E n \in sl.lengths : \E j \in 1..(n - 1) :
                <<LowerCh(m[1]), RefStep(sl.item[2], sl.dir, j)>> \in DictItems(game.targets)

\* the level has no pieces, or a piece without the target of its letter
Unwinnable(level_string) ==
    LET g == ParseLevel(level_string) IN
    \/ g.pieces = <<>>
    \/ \E i \in DOMAIN g.pieces : ~DictHas(g.targets, LowerCh(g.pieces[i][1]))

\* C37. If a parsed level has no pieces, or some piece has no target with
\* its lowercase letter, then no state reachable by legal moves is won:
\* verify_kuboble_solution returns false for every solution text and the
\* solver returns 'no solution' for every max_depth.
C37_UnwinnableLevelNeverWon ==
    Unwinnable(args.level_string)
        => /\ pc = "play" => ~IsWin(game)
           /\ pc \in {"ver_returned", "ver_again"} => ver = Returned(FALSE)
           /\ pc = "bfs_returned" => bfs.status = "none"

\* the solver has returned 'no solution' after expanding two states of a
\* level whose piece has no target, with the piece on a target cell in one
\* of the states it met
C37_Witness ==
    /\ pc = "bfs_returned" /\ bfs.status = "none"
    /\ Unwinnable(args.level_string)
    /\ Len(bfs.expanded) >= 2
    /\ \E i \in DOMAIN bfs.enq : \E it \in DictItems(bfs.enq[i]) :
          it[2] \in TargetCells(game)

(***************************************************************************)
(* Claims about the level parser                                           *)
(***************************************************************************)
\* the cells the token lists name: <<row, column>>, counted from 1
TokenCells(rows) == UNION {{<<r, c>> : c \in DOMAIN rows[r]} : r \in DOMAIN rows}

\* a character that is no marker and no letter
Unrecognized(ch) == ch \notin {".", "X"} /\ ~IsUpper(ch) /\ ~IsLower(ch)

\* a token made only of unrecognized characters
UnparsableToken(token) ==
    token # <<>> /\ \A i \in DOMAIN token : Unrecognized(token[i])

\* C23. Parsing a level text that contains a token made only of
\* unrecognized characters (neither the empty marker, the obstacle marker,
\* an uppercase letter nor a lowercase letter) fails with a format error
\* instead of yielding a board.
C23_UnrecognizedTokenRejected ==
    (/\ pc = "parsed"
     /\ \E cell \in TokenCells(out.processed_rows_tokens) :
           UnparsableToken(out.processed_rows_tokens[cell[1]][cell[2]]))
        => out.raised

\* the maximal runs of characters other than ' ' in a row: <<first, last>>
SpaceFreeRuns(row) ==
    {run \in (DOMAIN row) \X (DOMAIN row) :
        /\ run[1] <= run[2]
        /\ \A k \in run[1]..run[2] : row[k] # " "
        /\ run[1] = 1 \/ row[run[1] - 1] = " "
        /\ run[2] = Len(row) \/ row[run[2] + 1] = " "}

\* tokens are the maximal space-free runs of row, from left to right
SplitOnSpaces(row, tokens) ==
    /\ Len(tokens) = Cardinality(SpaceFreeRuns(row))
    /\ \A k \in DOMAIN tokens :
          \E run \in SpaceFreeRuns(row) :
             /\ Cardinality({q \in SpaceFreeRuns(row) : q[1] < run[1]}) = k - 1
             /\ tokens[k] = SubSeq(row, run[1], run[2])

\* C24. Row tokenization precedence: a row containing a space is split on
\* spaces (empty fragments dropped); otherwise a row containing the empty
\* marker '.' yields one token per character; otherwise a non-empty row is
\* a single combined token; an empty row yields no tokens.  A row is the
\* text between two ';' without the whitespace around it.
C24_TokenizationPrecedence ==
    pc = "parsed"
        => LET raw_rows == Split(Strip(args.level_string), ";")
               tokens == out.processed_rows_tokens
           IN /\ Len(tokens) = Len(raw_rows)
              /\ \A r \in DOMAIN raw_rows :
                    LET row == Strip(raw_rows[r]) IN
                    IF Contains(row, " ") THEN SplitOnSpaces(row, tokens[r])
                    ELSE IF Contains(row, ".")
                         THEN /\ Len(tokens[r]) = Len(row)
                              /\ \A i \in DOMAIN row : tokens[r][i] = <<row[i]>>
                    ELSE IF row # <<>> THEN tokens[r] = <<row>>
                    ELSE tokens[r] = <<>>

\* a row with a space and a '.' was split on the space, above a row that
\* is one token
C24_Witness ==
    /\ pc = "parsed"
    /\ args.level_string = <<"A", "a", " ", ".", ";", "a">>
    /\ out.processed_rows_tokens = << << <<"A", "a">>, <<".">> >>, << <<"a">> >> >>

\* C25. For every level text, the parsed width equals the maximum token
\* count over its rows and the parsed height equals the number of
\* ';'-separated rows; cells of a row beyond its last token are empty (no
\* piece, target or obstacle).
C25_WidthHeightAndPadding ==
    pc = "parsed"
        => LET rows == out.processed_rows_tokens
               text == args.level_string
           IN /\ game.height = Cardinality({i \in DOMAIN text : text[i] = ";"}) + 1
              /\ Len(rows) = game.height
              /\ \A r \in DOMAIN rows : Len(rows[r]) <= game.width
              /\ \E r \in DOMAIN rows : Len(rows[r]) = game.width
              /\ \A r \in 1..game.height : \A c \in 1..game.width :
                    c > Len(rows[r])
                        => /\ game.grid[r][c] = "."
                           /\ \A i \in DOMAIN game.pieces :
                                 game.pieces[i][2] # <<r - 1, c - 1>>
                           /\ \A i \in DOMAIN game.targets :
                                 game.targets[i][2] # <<r - 1, c - 1>>

\* the first row is shorter than the second: its last cells have no token
C25_Witness ==
    /\ pc = "parsed"
    /\ game.height >= 2
    /\ Len(out.processed_rows_tokens[1]) >= 1
    /\ Len(out.processed_rows_tokens[1]) < game.width

\* the places of the uppercase and of the lowercase characters of a token
Uppers(token) == {i \in DOMAIN token : IsUpper(token[i])}

Lowers(token) == {i \in DOMAIN token : IsLower(token[i])}

\* a token with one uppercase and one lowercase character
PairToken(token) == Cardinality(Uppers(token)) = 1 /\ Cardinality(Lowers(token)) = 1

\* the parsed game holds piece p and target t at the cell
RecordsBoth(g, cell, p, t) ==
    /\ DictHas(g.pieces, p) /\ DictGet(g.pieces, p) = <<cell[1] - 1, cell[2] - 1>>
    /\ DictHas(g.targets, t) /\ DictGet(g.targets, t) = <<cell[1] - 1, cell[2] - 1>>

\* a cell after `cell` in row-major order has ch in its token
NamedLater(rows, cell, ch) ==
    \E other \in TokenCells(rows) :
       /\ other[1] > cell[1] \/ (other[1] = cell[1] /\ other[2] > cell[2])
       /\ Contains(rows[other[1]][other[2]], ch)

\* C26 as stated. A cell token containing one uppercase character and one
\* lowercase character, in either order and whether or not they are a
\* matching pair, records both the piece and the target at that cell's
\* position.
C26_PairTokenRecordsBoth ==
    pc = "parsed"
        => \A cell \in TokenCells(out.processed_rows_tokens) :
              LET token == out.processed_rows_tokens[cell[1]][cell[2]] IN
              PairToken(token)
                  => RecordsBoth(game, cell,
                                 token[CHOOSE i \in Uppers(token) : TRUE],
                                 token[CHOOSE i \in Lowers(token) : TRUE])

\* C26, amended. A cell token containing one uppercase character other
\* than the obstacle marker 'X' and one lowercase character, in either
\* order and whether or not they are a matching pair, records both the
\* piece and the target at that cell's position, unless a later cell of
\* the text names one of the two letters again.
C26_PairTokenRecordsBothUnlessRenamed ==
    pc = "parsed"
        => \A cell \in TokenCells(out.processed_rows_tokens) :
              LET token == out.processed_rows_tokens[cell[1]][cell[2]]
                  p == token[CHOOSE i \in Uppers(token) : TRUE]
                  t == token[CHOOSE i \in Lowers(token) : TRUE]
              IN (/\ PairToken(token)
                  /\ p # "X"
                  /\ ~NamedLater(out.processed_rows_tokens, cell, p)
                  /\ ~NamedLater(out.processed_rows_tokens, cell, t))
                     => RecordsBoth(game, cell, p, t)

\* the token 'Ab' put piece A and target b on the first cell, next to
\* target a
C26_Witness ==
    /\ pc = "parsed"
    /\ args.level_string = <<"A", "b", " ", "a">>
    /\ game.pieces = << <<"A", <<0, 0>> >> >>
    /\ game.targets = << <<"b", <<0, 0>> >>, <<"a", <<0, 1>> >> >>

(***************************************************************************)
(* Claims about the generator                                              *)
(***************************************************************************)
\* C1. Verifier soundness: for every (level, solution) pair the generator
\* returns, for any width, height, num_pieces in 0..26, num_obstacles,
\* depth bound and non-triviality flag, verify_kuboble_solution returns
\* true.
C1_VerifierSoundness ==
    pc = "gen_verified" => ver = Returned(TRUE)

\* the same for the calls with at least one piece
C1_SoundnessWithPieces ==
    (pc = "gen_verified" /\ args.num_pieces >= 1) => ver = Returned(TRUE)

\* the last candidate level of the attempt loop was assembled and parsed
Assembled == pc \in {"gen_loop", "gen_returned", "gen_verified"}
             /\ gen.attempt > 0 /\ gen.last.assembled

\* parse(serialize(candidate)) = candidate
RoundTripOfCandidate ==
    LET c == gen.last.cand
        g == ParseLevel(gen.last.level_string)
    IN /\ g.width = args.width
       /\ g.height = args.height
       /\ DictItems(g.pieces) = DictItems(c.pieces_pos)
       /\ DictItems(g.targets) = DictItems(c.targets_pos)
       /\ ObstacleCells(g) = {c.obstacles_pos[i] : i \in DOMAIN c.obstacles_pos}

\* C9. Round-trip of generated levels: for every level assembled by the
\* generator, parsing the serialized level text yields a board with the same
\* width and height and exactly the placed piece positions, target positions
\* and obstacle cells.
C9_GeneratedRoundTrip == Assembled => RoundTripOfCandidate

\* the same for at most 23 pieces, which do not reach the letter X
C9_RoundTripBelowX ==
    (Assembled /\ args.num_pieces <= 23) => RoundTripOfCandidate

\* width and height are positive integers
PositiveGrid(a) == a.width >= 1 /\ a.height >= 1

\* the inputs the generator is to refuse: more pieces than letters, or more
\* pieces, targets and obstacles than cells
Overfull(a) ==
    \/ a.num_pieces > MaxPieceLetters
    \/ 2 * a.num_pieces + a.num_obstacles > a.width * a.height

\* the call ended with the configuration error and no attempt was made
RefusedAtOnce ==
    /\ gen.attempt = 0
    /\ pc # "gen_loop"
    /\ pc # "gen_call" => out = [kind |-> "ValueError"]

\* C11. Configuration errors: for any inputs with num_pieces > 26 or with
\* 2*num_pieces + num_obstacles > width*height, generate_kuboble_level
\* reports a configuration error before any placement attempt and never
\* returns a level or the 'not found' result.
C11_ConfigErrorBeforeAttempts ==
    (PositiveGrid(args) /\ Overfull(args)) => RefusedAtOnce

\* the same for the calls with at least one piece
C11_ConfigErrorWithPieces ==
    (Overfull(args) /\ args.num_pieces >= 1) => RefusedAtOnce

\* the call passed the configuration checks with at least one piece
InLoopCall == args.num_pieces >= 1 /\ ~Overfull(args)

\* the call has returned or raised
GenDone == pc \in {"gen_returned", "gen_verified"}

\* the configurations one legal slide of one piece away from cfg
RefSlides(g, cfg) ==
    UNION {UNION {{(cfg \ {it}) \cup {<<it[1], RefStep(it[2], dir, n)>>} :
                      n \in RefSlideLengths(g, cfg, it, dir)} :
                  dir \in RefDirs} :
           it \in cfg}

\* some configuration of frontier, or one at most n legal moves from it
\* that passes outside seen, is won
RECURSIVE RefWinSearch(_, _, _, _)
RefWinSearch(g, seen, frontier, n) ==
    IF \E cfg \in frontier : RefWon(g, cfg) THEN TRUE
    ELSE IF n <= 0 \/ frontier = {} THEN FALSE
    ELSE LET next == UNION {RefSlides(g, cfg) : cfg \in frontier} \ seen IN
         RefWinSearch(g, seen \cup next, next, n - 1)

\* some sequence of at most max_solver_depth legal moves wins the level
SolvableWithinDepth(level_string) ==
    LET g == ParseLevel(level_string)
        start == {DictItems(g.pieces)}
    IN RefWinSearch(g, start, start, args.max_solver_depth)

\* C12. Bounded attempts: generate_kuboble_level makes at most
\* max_generation_attempts placement attempts and then terminates; it
\* returns None if and only if no attempt produced a level that can be
\* solved within max_solver_depth moves (every attempt that did not return
\* left such a level, and None comes only after the last attempt), and
\* otherwise returns the level of the attempt that was solved, with a
\* solution.  Termination is stated by its variant: every step of the loop
\* either counts one more attempt or leaves the loop, and the count never
\* exceeds the limit.
C12_BoundedAttemptsThenOutcome ==
    /\ [](InLoopCall =>
            /\ gen.attempt <= args.max_generation_attempts
            /\ (pc = "gen_loop" /\ gen.attempt > 0)
                   => ~SolvableWithinDepth(gen.last.level_string)
            /\ GenDone => out.kind \in {"None", "pair"}
            /\ (GenDone /\ out.kind = "None")
                   => /\ gen.attempt = args.max_generation_attempts
                      /\ gen.attempt > 0 => ~SolvableWithinDepth(gen.last.level_string)
            /\ (GenDone /\ out.kind = "pair")
                   => /\ gen.attempt >= 1
                      /\ out.level = gen.last.level_string
                      /\ out.solution = gen.last.solution
                      /\ SolvableWithinDepth(out.level))
    /\ [][pc = "gen_loop"
             => \/ gen'.attempt = gen.attempt + 1 /\ pc' \in {"gen_loop", "gen_returned"}
                \/ gen'.attempt = gen.attempt /\ pc' = "gen_returned"]_vars

\* both attempts of a call with limit 2 failed and None is returned
C12_Witness ==
    /\ pc = "gen_returned" /\ out.kind = "None"
    /\ args.num_pieces >= 1 /\ gen.attempt = 2

\* a call returns a pair at its second attempt
C12_WitnessPair ==
    /\ pc = "gen_returned" /\ out.kind = "pair"
    /\ gen.attempt = 2

\* C13. Non-trivial results: when require_non_trivial_solution is set, no
\* level returned with num_pieces >= 1 is already won in its initial state
\* (not every parsed piece stands on its own target), and the returned
\* solution has at least one move.
C13_NonTrivialResult ==
    (GenDone /\ out.kind = "pair" /\ args.num_pieces >= 1
        /\ args.require_non_trivial_solution)
        => /\ LET g == ParseLevel(out.level) IN ~RefWon(g, DictItems(g.pieces))
           /\ NumMoves(out.solution) >= 1

\* a pair with a two-move solution is returned under the flag
C13_Witness ==
    /\ pc = "gen_returned" /\ out.kind = "pair"
    /\ args.num_pieces >= 1 /\ args.require_non_trivial_solution
    /\ NumMoves(out.solution) = 2

AttemptMade ==
    pc \in {"gen_loop", "gen_returned", "gen_verified"} /\ gen.attempt > 0

\* the positions of a dict
PositionsOf(d) == {d[i][2] : i \in DOMAIN d}

\* the placement of the last attempt: the first num_pieces letters, their
\* targets and num_obstacles obstacles, on pairwise distinct cells of the
\* grid
PlacementAsRequested ==
    LET c == gen.last.cand
        cells == PositionsOf(c.pieces_pos) \cup PositionsOf(c.targets_pos)
                    \cup {c.obstacles_pos[i] : i \in DOMAIN c.obstacles_pos}
    IN /\ Len(c.pieces_pos) = args.num_pieces
       /\ Len(c.targets_pos) = args.num_pieces
       /\ \A i \in 1..args.num_pieces :
             /\ c.pieces_pos[i][1] = UpperSeq[i]
             /\ c.targets_pos[i][1] = LowerSeq[i]
       /\ Len(c.obstacles_pos) = args.num_obstacles
       /\ Cardinality(cells) = 2 * args.num_pieces + args.num_obstacles
       /\ cells \subseteq (0..(args.height - 1)) \X (0..(args.width - 1))

\* the level the last attempt assembled, as KubobleGame reads it: the
\* same pieces, targets and obstacles
LevelAsRequested ==
    LET g == ParseLevel(gen.last.level_string)
        cells == PositionsOf(g.pieces) \cup PositionsOf(g.targets) \cup ObstacleCells(g)
    IN /\ {g.pieces[i][1] : i \in DOMAIN g.pieces}
             = {UpperSeq[i] : i \in 1..args.num_pieces}
       /\ {g.targets[i][1] : i \in DOMAIN g.targets}
             = {LowerSeq[i] : i \in 1..args.num_pieces}
       /\ Cardinality(ObstacleCells(g)) = args.num_obstacles
       /\ Cardinality(cells) = 2 * args.num_pieces + args.num_obstacles
       /\ cells \subseteq (0..(args.height - 1)) \X (0..(args.width - 1))

\* C34. For valid parameters with num_pieces >= 1, every candidate level
\* the generator assembles contains exactly the pieces named by the first
\* num_pieces uppercase letters, exactly their num_pieces lowercase targets
\* and exactly num_obstacles obstacles, all on pairwise distinct in-grid
\* cells; the 'not enough coordinates' abandon branch is never taken (the
\* parser has no raise, so there is no parse-failure retry either).
C34_CandidateAsRequested ==
    AttemptMade
        => /\ gen.last.end # "short" /\ gen.last.assembled
           /\ PlacementAsRequested
           /\ LevelAsRequested

\* the same for at most 23 pieces, which do not reach the letter X
C34_CandidateBelowX ==
    (AttemptMade /\ args.num_pieces <= 23)
        => /\ gen.last.end # "short" /\ gen.last.assembled
           /\ PlacementAsRequested
           /\ LevelAsRequested

\* with 24 pieces and more the placement is still as requested
C34_PlacementOnly ==
    AttemptMade
        => /\ gen.last.end # "short" /\ gen.last.assembled
           /\ PlacementAsRequested

\* the coordinates the last attempt popped, in the order of the pops: a
\* piece and its target in turn, then the obstacles
PoppedCoords ==
    LET c == gen.last.cand IN
    [k \in 1..(2 * Len(c.pieces_pos) + Len(c.obstacles_pos)) |->
        IF k > 2 * Len(c.pieces_pos) THEN c.obstacles_pos[k - 2 * Len(c.pieces_pos)]
        ELSE IF k % 2 = 1 THEN c.pieces_pos[(k + 1) \div 2][2]
        ELSE c.targets_pos[k \div 2][2]]

\* C38. For num_pieces >= 1 no candidate level assembled by the generator
\* is initially won (a piece and its target are always drawn on distinct
\* cells), so require_non_trivial_solution never rejects a candidate: with
\* the same shuffle an attempt ends the same way with the flag true and
\* with the flag false, and the returned solution is never empty.
C38_FlagNeverRejects ==
    /\ AttemptMade
          => /\ \A i \in DOMAIN gen.last.cand.pieces_pos :
                   gen.last.cand.pieces_pos[i][2] # gen.last.cand.targets_pos[i][2]
             /\ gen.last.assembled
                   => LET g == ParseLevel(gen.last.level_string) IN
                      ~RefWon(g, DictItems(g.pieces))
             /\ gen.last.end # "trivial"
             /\ GenAttemptBody([args EXCEPT !.require_non_trivial_solution = ~@],
                               PoppedCoords) = gen.last
    /\ (pc \in {"gen_returned", "gen_verified"} /\ out.kind = "pair"
          /\ args.num_pieces >= 1)
          => out.solution # <<>>

\* without the flag a level of two pieces is returned with a solution of
\* two moves
C38_Witness ==
    /\ pc = "gen_returned" /\ out.kind = "pair"
    /\ ~args.require_non_trivial_solution
    /\ args.num_pieces = 2
    /\ NumMoves(out.solution) = 2

Init == InitGen

Next == NextGen

Spec == Init /\ [][Next]_vars

====
